---- MODULE Spec2Model ----
(***************************************************************************)
(* Model of the execution engine of niobium-runner/src/commandRunner.ts:   *)
(* CommandRunner.runCommand, runStage and runSequence, the dependency      *)
(* check and the calls made to the status sink (JobOutputService).         *)
(*                                                                         *)
(* The engine runs on the JavaScript event loop: a synchronous block of    *)
(* code runs to completion, and an event handler or the continuation of an *)
(* await runs only between such blocks.  Each action below is one such     *)
(* block or a part of one; where a block is split in several actions the   *)
(* guards keep every handler and continuation disabled until it has ended. *)
(***************************************************************************)
EXTENDS Integers, Sequences, FiniteSets, TLC

\* Bounds of the model.
MaxTasks == 2
NumStages == 2
MaxPids == 3
MaxLen == 3
MaxLines == 2
MaxValueLen == 2
MaxJson == 4
MaxCalls == 3

\* The command names of the configuration, and the exit codes a process closes with.
Names == 1..MaxTasks
ExitCodes == {0, 1}
\* The exit codes of the runs of a single command.
CloseCodes == {0, 1, 2}

\* The characters of the texts of the model: the characters of a variable
\* reference, two name characters and one character of no name.
Chars == {"$", "{", "}", "A", "B", "-"}
WordChars == {"A", "B"}
\* The names of the variables.
VarNames == {<<"A">>, <<"B">>}

\* The pids of the machine; the process of the canceled task has the first.
Pids == 1..MaxPids
PrimaryPid == 1
\* The ports killProcessAndChildren adds for known commands.
ViteDefaultPort == 5173
ServerDefaultPort == 5000
ExpressPort == 3000
Ports == {ExpressPort, ServerDefaultPort, ViteDefaultPort}
\* The ports the processes of the model listen on (0: none).
ListenPorts == {ExpressPort}
\* What a process is: the port it holds, and whether its command line matches
\* the pattern `node.*<script name>` of the canceled command.
PlainProcess == [port |-> 0, node |-> FALSE]
ProcessKinds == {PlainProcess, [port |-> ExpressPort, node |-> FALSE], [port |-> 0, node |-> TRUE]}
FreeProc == [state |-> "free", forkedBy |-> 0, port |-> 0, node |-> FALSE]
\* command.command of the canceled task.
KillCommands == {"make build", "npm run dev", "node server"}

VARIABLES
  sink,              \* TRUE iff this.jobOutputService is set (constructor got a context)
  callKind,          \* the top-level call made: "none", "stage", "sequence" or "command"
  \* ---- runSequence frame
  seqPc,             \* "idle", "run", "wait", "pause", "done"
  seqLen,            \* stages.length
  stageIndex,        \* index of the stage of the current iteration
  stageStatus,       \* per stage of the sequence: "pending", "running", "returned"
  sequenceSuccess,
  seqResult,         \* the ExecutionResult runSequence returned
  sequenceJob,       \* calls the sink received for the sequence job
  seqExecuted,       \* history: names whose runCommand returned in earlier stages of this sequence run
  \* ---- runStage frame
  stagePc,           \* "none", "launch", "await", "seq", "seqwait", "pause", "done"
  stage,             \* the StageConfig found: [parallel, allow_failure]
  commands,          \* getStageCommands(config, stageName), in declaration order
  cmd,               \* the CommandConfig of each name
  executedCommands,
  cmdIndex,          \* position in commands of the task being launched / awaited
  taskState,         \* per name: "idle", "running", "settled", "returned", "skipped", "deperr",
                     \* "canceled" (closed after a kill request: runCommand never returns),
                     \* "spawnfail" (no process: the 'error' event is pending), "thrown"
  results,           \* per name: the ExecutionResult of the task
  stageSuccess,
  stageResult,       \* the ExecutionResult runStage returned
  cmdJob,            \* per name: calls the sink received for the command job
  stageJob,          \* calls the sink received for the stage job
  \* ---- kill handlers registered by runCommand
  killHandler,       \* per name: "idle", "running" (canceled = true, kill routine in progress), "done"
  \* ---- a call of a pure method of the runner
  fnCall,            \* the method or handler called last and its arguments
  fnResult,          \* what the call returned
  \* ---- the processes of the machine and one call of killProcessAndChildren
  procs,             \* per pid: [state, forkedBy, port, node]
  primaryCommand,    \* command.command of the task whose process is pid 1
  killPc,            \* "none", "running", "find", "holders", "wait", "byport", "failsafe", "done",
                     \* "failed" (the routine has raised)
  childPids,         \* the childPids argument of killProcessAndChildren
  detectedPorts,     \* the detectedPorts argument of killProcessAndChildren
  allPids,           \* the target pids
  criticalPorts,
  pending,           \* the pids findChildProcesses has still to ask pgrep about, next first
  portInfo,          \* the pids checkPortsInUse returned, not yet looked at
  portQueue,         \* the ports the current kill-by-port loop has still to go through
  signals,           \* the calls of process.kill made, oldest first: [pid, signal, gone]
  killReport,        \* the exit code the kill handler gave completeJobFailure; 0 before
  failedSteps,       \* the steps of the kill routine that have failed so far
  portHolders,       \* the pids checkPortsInUse has reported to the kill routine
  \* ---- what the tasks leave behind
  store,             \* the entries of the VariableManager, in insertion order
  files,             \* the writes made to output files, oldest first: [path, content]
  \* ---- the calls of runCommand made one after the other, with the texts of the tasks
  flowPc,            \* "idle", "running", "spawnfail" ('error' event pending), "returned", "thrown";
                     \* for a container task "starting", "finding", "waiting", "removing"
  flowCalls,         \* the number of calls made
  flowCall,          \* the call: the task as passed, the answer of the ignore predicate,
                     \* the store and the files at its entry
  flowTask,          \* the CommandConfig object of the call (its env is written back)
  flowExec,          \* what cp.exec was called with: [command, env]
  flowHandler,       \* TRUE iff the call registered a kill handler
  flowResult,        \* the ExecutionResult the call returned
  flowJob,           \* calls the sink received for the job of the call
  \* ---- a call of runDockerCommand
  dockerTask,        \* the task: has it a command, an output_file, remove_after_run
  container,         \* "none", "created", "running", "exited", "exited nonzero", "removed"
  removals,          \* the calls of removeContainer made by the call
  handle,            \* the process handle of a task: childPids and detectedPorts of runCommand
  interval,          \* portCheckInterval: "none", "set", "cleared"
  callbacks,         \* the polling callbacks in flight, each at its await: "children", "ports"
  jobUpdates,        \* the updateJob calls made for the job of the task
  detectedServerPorts \* the ports detectPossiblePorts found in the command line

seqVars == <<seqPc, seqLen, stageIndex, stageStatus, sequenceSuccess, seqResult, sequenceJob, seqExecuted>>
stageVars == <<stagePc, stage, commands, cmd, executedCommands, cmdIndex, taskState, results,
               stageSuccess, stageResult, cmdJob, stageJob>>
fnVars == <<fnCall, fnResult>>
treeVars == <<procs, primaryCommand, killPc, childPids, detectedPorts, allPids, criticalPorts,
              pending, portInfo, portQueue, signals, killReport, failedSteps, portHolders>>
ioVars == <<store, files>>
flowVars == <<flowPc, flowCalls, flowCall, flowTask, flowExec, flowHandler, flowResult, flowJob>>
dockerVars == <<dockerTask, container, removals>>
pollVars == <<handle, interval, callbacks, jobUpdates, detectedServerPorts>>
auxVars == <<killHandler, fnVars, treeVars, ioVars, flowVars, dockerVars, pollVars>>
vars == <<sink, callKind, seqVars, stageVars, auxVars>>

-----------------------------------------------------------------------------
\* ExecutionResult.  exitCode is the empty set where the code leaves it undefined.
ExecutionResult(s, c, e) == [success |-> s, exitCode |-> c, error |-> e]
NoResult == ExecutionResult(FALSE, {}, "unset")

\* The calls a job of the status sink has received.
NoJob == [start |-> 0, success |-> 0, failure |-> 0]
StartJob(j) == IF sink THEN [j EXCEPT !.start = @ + 1] ELSE j
CompleteJobSuccess(j) == IF sink THEN [j EXCEPT !.success = @ + 1] ELSE j
CompleteJobFailure(j) == IF sink THEN [j EXCEPT !.failure = @ + 1] ELSE j
\* JobRecord status kept by the sink: running from its start to its first completion.
JobRunning(j) == j.start > 0 /\ j.success = 0 /\ j.failure = 0

Range(s) == {s[i] : i \in 1..Len(s)}

\* Command configurations: allow_failure and depends_on (the set of the names it
\* lists; a single name is the set of that name, no depends_on the empty set).
DependsOnValues == SUBSET Names
CommandConfigs == [allow_failure : BOOLEAN, depends_on : DependsOnValues]
DefaultCommand == [allow_failure |-> FALSE, depends_on |-> {}]

\* Command lists: distinct names; the declaration order is the order of the names.
SortedSeq(S) == CHOOSE s \in [1..Cardinality(S) -> S] : \A i, j \in 1..Cardinality(S) : i < j => s[i] < s[j]
CommandLists == {SortedSeq(S) : S \in SUBSET Names}

\* The configurations of the commands of a list, each drawn from configs; a name
\* that is not in the list keeps the default.
CommandMaps(l, configs) ==
  {[n \in Names |-> IF n \in Range(l) THEN g[n] ELSE DefaultCommand] : g \in [Range(l) -> configs]}

\* The stages runStage can be called for with the command list l.
StageInputs(l) ==
  {[parallel |-> p, allow_failure |-> a, commands |-> l, cmd |-> c] :
     p \in BOOLEAN, a \in BOOLEAN, c \in CommandMaps(l, CommandConfigs)}

\* The stages of a sequence are drawn from the inputs whose commands name at most
\* one dependency each.
SequenceCommandConfigs == {c \in CommandConfigs : Cardinality(c.depends_on) <= 1}
SequenceStageInputs(l) ==
  {[parallel |-> p, allow_failure |-> a, commands |-> l, cmd |-> c] :
     p \in BOOLEAN, a \in BOOLEAN, c \in CommandMaps(l, SequenceCommandConfigs)}

-----------------------------------------------------------------------------
\* Mutant: the dependency check always passes.
areDependenciesSatisfiedAlways(command, executed) == TRUE

\* Mutant: one executed dependency is enough.
areDependenciesSatisfiedAny(command, executed) ==
  command.depends_on = {} \/ \E dependency \in command.depends_on : dependency \in Range(executed)

\* CommandRunner.areDependenciesSatisfied
areDependenciesSatisfied(command, executed) ==
  IF command.depends_on = {} THEN TRUE
  ELSE \A dependency \in command.depends_on : dependency \in Range(executed)

\* The error object the close handler rejects with for a code other than 0
\* (`code` is the empty set for null: the process was ended by a signal), and
\* the error of the 'error' event of a process that could not be spawned.
CloseError(code, stderr) == [code |-> code, stderr |-> stderr, message |-> "Error: Command failed"]
SpawnError == [code |-> {"ENOENT"}, stderr |-> "", message |-> "Error: spawn"]

\* Mutant: the catch block reports the captured stderr whatever it is.
CatchResultStderr(error) ==
  ExecutionResult(FALSE, IF error.code = {} THEN {1} ELSE error.code, error.stderr)

\* The catch block of runCommand: "exitCode = error.code || 1" and
\* "stderr = error.stderr || String(error)".
CatchResult(error) ==
  ExecutionResult(FALSE,
                  IF error.code = {} THEN {1} ELSE error.code,
                  IF error.stderr # "" THEN error.stderr ELSE error.message)

\* The close handler and the code after the exec promise: code 0 resolves, any
\* other code rejects and the catch block returns the failed result.
CloseResult(code, stderr) ==
  IF code = {0} THEN ExecutionResult(TRUE, {0}, "none")
  ELSE CatchResult(CloseError(code, stderr))

\* The same for a process that closes with the number `code` and has written
\* to stderr.
ProcessResult(code) == CloseResult({code}, "stderr")

\* Mutant: the rejection of the exec promise leaves runCommand as an exception.
RunCommandRethrows(error) == [state |-> "thrown", result |-> NoResult]

\* The try/catch of runCommand: a rejection of the exec promise ends in the
\* catch block, which returns the failed result.
RunCommandCatch(error) == [state |-> "returned", result |-> CatchResult(error)]

\* The result of the working-directory check of runCommand.
IgnoredResult == ExecutionResult(FALSE, {1}, "ignored")

\* The results a parallel launch returns for an unsatisfied dependency.
DependencyError == ExecutionResult(FALSE, {1}, "dependency")
SkippedResult == ExecutionResult(TRUE, {}, "none")

\* Mutants: a failed command never stops the stage; allow_failure is not consulted.
CommandFatalNever(result, command) == FALSE
CommandFatalAlways(result, command) == ~result.success

\* "the command failed and doesn't allow failure" (both modes).
CommandFatal(result, command) == ~result.success /\ ~command.allow_failure

\* Mutant: an unsatisfied dependency is an error whatever allow_failure says.
SkipsUnsatisfiedNever(command) == FALSE

\* What a launch does with a command whose dependencies are unsatisfied: a command
\* with allow_failure is skipped, any other is a dependency error.
SkipsUnsatisfied(command) == command.allow_failure

\* Mutant: the stage job is completed as a success whenever the stage goes on.
StageJobCompletionSuccess(ok, j) == CompleteJobSuccess(j)

\* The completion of the stage job at the end of runStage.
StageJobCompletion(ok, j) == IF ok THEN CompleteJobSuccess(j) ELSE CompleteJobFailure(j)

\* The result runStage returns after its loop, from stageSuccess and stage.allow_failure.
StageOutcome(ok, allow) ==
  IF ok THEN ExecutionResult(TRUE, {}, "none")
  ELSE IF allow THEN ExecutionResult(TRUE, {}, "none")
  ELSE ExecutionResult(FALSE, {}, "Stage execution failed")

\* The command jobs added as children of the stage job: addChildJob after runCommand returned.
StageChildren(ts) == IF sink THEN {n \in Names : ts[n] = "returned"} ELSE {}

\* cleanupStageJobs: every child job still running is completed as a success.
cleanupStageJobs(cj, children) ==
  [n \in Names |-> IF n \in children /\ JobRunning(cj[n]) THEN CompleteJobSuccess(cj[n]) ELSE cj[n]]

\* Mutant: a continuation may run in the middle of the launch.
EventLoopFreeAlways == TRUE

\* Handlers and await continuations run only once the synchronous launch of a
\* parallel stage (commands.map) has ended.
EventLoopFree == stagePc # "launch"

\* The continuation of a settled promise runs before the next event is handled.
NoPendingContinuation == \A n \in Names : taskState[n] # "settled"

\* Mutant: runCommand is not awaited, the loop goes on to its pause.
AfterRunCommandNoAwait == "pause"

\* Where the sequential loop goes after it called runCommand: it awaits the result.
AfterRunCommand == "seqwait"

\* Mutant: runStage is not awaited.
StageHasReturnedAlways == TRUE

\* runSequence awaits runStage: its loop goes on once the stage has returned.
StageHasReturned == stagePc = "done"

\* Mutant: a configuration error is returned as a success.
ConfigErrorAsSuccess(msg) == ExecutionResult(TRUE, {}, msg)

\* The result returned for a configuration error: an unknown stage or sequence
\* name, a stage without commands, a sequence without stages.
ConfigError(msg) == ExecutionResult(FALSE, {}, msg)

\* Mutant: an unsuccessful stage does not stop the sequence.
SequenceBreaksNever(result) == FALSE

\* "if (!result.success)" after `await this.runStage`: the loop of runSequence breaks.
SequenceBreaks(result) == ~result.success

\* Task states: a task that will not run (any more), and a task whose runCommand was called.
Terminal == {"returned", "skipped", "deperr"}
Started(n) == taskState[n] \in {"running", "settled", "returned"}
\* The position of a name in the declaration order of the stage.
Position(n) == CHOOSE i \in 1..Len(commands) : commands[i] = n

-----------------------------------------------------------------------------
\* No pure method has been called.
NoCall == [fn |-> "none"]

\* A task without outputs, without output_file, without env; no call of cp.exec;
\* no call of runCommand yet.
NoOutputs == [declared |-> FALSE, names |-> <<>>]
NoFile == <<"undefined">>
NoEnv == <<"undefined">>
NoExec == [command |-> <<"undefined">>, env |-> NoEnv]
NoTask == [command |-> <<>>, env |-> NoEnv, output_file |-> NoFile, outputs |-> NoOutputs,
           allow_failure |-> FALSE]
\* A container task: has it a command, an output_file, remove_after_run.
DockerTasks == [command : BOOLEAN, output_file : BOOLEAN, remove_after_run : BOOLEAN]
\* let detectedPorts: number[] = []; let childPids: number[] = [];
NoHandle == [childPids |-> <<>>, detectedPorts |-> <<>>]
NoDockerTask == [command |-> FALSE, output_file |-> FALSE, remove_after_run |-> FALSE]
NoFlowCall == [task |-> NoTask, ignored |-> FALSE, store |-> <<>>, files |-> <<>>]

\* The exit code the kill handler reports to the sink.
CanceledExitCode == 130

\* The values the state takes.
\* (a job gets a second completeJobFailure from a kill handler that runs after
\* runCommand has completed it)
JobCalls == [start : 0..1, success : 0..1, failure : 0..2]
ExecutionResults == [success : BOOLEAN, exitCode : SUBSET CloseCodes, error : STRING]
TypeOK ==
  /\ sink \in BOOLEAN
  /\ callKind \in {"none", "stage", "sequence", "command"}
  /\ seqPc \in {"idle", "run", "wait", "pause", "done"}
  /\ seqLen \in 0..NumStages
  /\ stageIndex \in 0..NumStages
  /\ stageStatus \in [1..NumStages -> {"pending", "running", "returned"}]
  /\ sequenceSuccess \in BOOLEAN
  /\ seqResult \in ExecutionResults
  /\ sequenceJob \in JobCalls
  /\ seqExecuted \subseteq Names
  /\ stagePc \in {"none", "launch", "await", "seq", "seqwait", "pause", "done"}
  /\ stage \in [parallel : BOOLEAN, allow_failure : BOOLEAN]
  /\ commands \in CommandLists
  /\ cmd \in [Names -> CommandConfigs]
  /\ Range(executedCommands) \subseteq Range(commands)
  /\ cmdIndex \in 0..Len(commands)
  /\ taskState \in [Names -> {"idle", "running", "settled", "returned", "skipped", "deperr", "canceled",
                              "spawnfail", "thrown"}]
  /\ \A n \in Names : results[n].error = SpawnError.message \/ results[n] \in ExecutionResults
  /\ stageSuccess \in BOOLEAN
  /\ stageResult \in ExecutionResults
  /\ cmdJob \in [Names -> JobCalls]
  /\ stageJob \in JobCalls
  /\ killHandler \in [Names -> {"idle", "running", "done"}]
  /\ procs \in [Pids -> [state : {"free", "alive", "exited", "killed"}, forkedBy : 0..MaxPids,
                          port : {0} \cup ListenPorts, node : BOOLEAN]]
  /\ primaryCommand \in KillCommands \cup {""}
  /\ killPc \in {"none", "running", "find", "holders", "wait", "byport", "failsafe", "done", "failed"}
  /\ childPids \subseteq Pids
  /\ detectedPorts \subseteq ListenPorts
  /\ allPids \subseteq Pids
  /\ criticalPorts \subseteq Ports
  /\ pending \in Seq(Pids)
  /\ portInfo \in Seq(Pids)
  /\ portQueue \in Seq(Ports)
  /\ signals \in Seq([pid : Pids, signal : {"SIGTERM", "SIGKILL"}, gone : BOOLEAN])
  /\ killReport \in {0, 1, CanceledExitCode}
  /\ failedSteps \subseteq {"enumerate", "lookup", "kill"}
  /\ portHolders \subseteq Pids
  /\ \A i \in 1..Len(store) : store[i].key \in VarNames
  /\ \A i \in 1..Len(files) : DOMAIN files[i] = {"path", "content"}
  /\ flowPc \in {"idle", "running", "spawnfail", "returned", "thrown", "starting", "finding", "waiting",
                 "removing", "canceling", "canceled"}
  /\ dockerTask \in DockerTasks
  /\ container \in {"none", "created", "running", "exited", "exited nonzero", "removed"}
  /\ removals \in 0..1
  /\ handle \in [childPids : Seq(Pids), detectedPorts : Seq(Ports)]
  /\ interval \in {"none", "set", "cleared"}
  /\ callbacks \in Seq({"children", "ports"})
  /\ jobUpdates \in Nat
  /\ detectedServerPorts \subseteq Ports
  /\ flowCalls \in 0..MaxCalls
  /\ DOMAIN flowCall = {"task", "ignored", "store", "files"}
  /\ DOMAIN flowTask = {"command", "env", "output_file", "outputs", "allow_failure"}
  /\ DOMAIN flowExec = {"command", "env"}
  /\ flowHandler \in BOOLEAN
  /\ flowResult.error = SpawnError.message \/ flowResult \in ExecutionResults
  /\ flowJob \in JobCalls

Init ==
  /\ sink \in BOOLEAN
  /\ callKind = "none"
  /\ seqPc = "idle"
  /\ seqLen = 0
  /\ stageIndex = 0
  /\ stageStatus = [i \in 1..NumStages |-> "pending"]
  /\ sequenceSuccess = TRUE
  /\ seqResult = NoResult
  /\ sequenceJob = NoJob
  /\ seqExecuted = {}
  /\ stagePc = "none"
  /\ stage = [parallel |-> FALSE, allow_failure |-> FALSE]
  /\ commands = <<>>
  /\ cmd = [n \in Names |-> DefaultCommand]
  /\ executedCommands = <<>>
  /\ cmdIndex = 0
  /\ taskState = [n \in Names |-> "idle"]
  /\ results = [n \in Names |-> NoResult]
  /\ stageSuccess = TRUE
  /\ stageResult = NoResult
  /\ cmdJob = [n \in Names |-> NoJob]
  /\ stageJob = NoJob
  /\ killHandler = [n \in Names |-> "idle"]
  /\ fnCall = NoCall
  /\ fnResult = NoCall
  /\ procs = [p \in Pids |-> FreeProc]
  /\ primaryCommand = ""
  /\ killPc = "none"
  /\ childPids = {}
  /\ detectedPorts = {}
  /\ allPids = {}
  /\ criticalPorts = {}
  /\ pending = <<>>
  /\ portInfo = <<>>
  /\ portQueue = <<>>
  /\ signals = <<>>
  /\ killReport = 0
  /\ failedSteps = {}
  /\ portHolders = {}
  /\ store = <<>>
  /\ files = <<>>
  /\ flowPc = "idle"
  /\ flowCalls = 0
  /\ flowCall = NoFlowCall
  /\ flowTask = NoTask
  /\ flowExec = NoExec
  /\ flowHandler = FALSE
  /\ flowResult = NoResult
  /\ flowJob = NoJob
  /\ dockerTask = NoDockerTask
  /\ container = "none"
  /\ removals = 0
  /\ handle = NoHandle
  /\ interval = "none"
  /\ callbacks = <<>>
  /\ jobUpdates = 0
  /\ detectedServerPorts = {}

\* The locals of runStage once the call has returned and its frame is gone.
NoStageFrame ==
  /\ stagePc' = "none"
  /\ stage' = [parallel |-> FALSE, allow_failure |-> FALSE]
  /\ commands' = <<>>
  /\ cmd' = [n \in Names |-> DefaultCommand]
  /\ executedCommands' = <<>>
  /\ cmdIndex' = 0
  /\ taskState' = [n \in Names |-> "idle"]
  /\ results' = [n \in Names |-> NoResult]
  /\ stageSuccess' = TRUE
  /\ stageResult' = NoResult
  /\ cmdJob' = [n \in Names |-> NoJob]
  /\ stageJob' = NoJob

\* runStage from its entry to the branch on stage.parallel: findStage, startStage,
\* getStageCommands, and the initial values of the locals.
BeginStage(found, input) ==
  /\ stage' = IF found THEN [parallel |-> input.parallel, allow_failure |-> input.allow_failure]
               ELSE [parallel |-> FALSE, allow_failure |-> FALSE]
  /\ commands' = IF found THEN input.commands ELSE <<>>
  /\ cmd' = IF found THEN input.cmd ELSE [n \in Names |-> DefaultCommand]
  /\ executedCommands' = <<>>
  /\ taskState' = [n \in Names |-> "idle"]
  /\ results' = [n \in Names |-> NoResult]
  /\ cmdJob' = [n \in Names |-> NoJob]
  /\ stageSuccess' = TRUE
  /\ IF ~found
     THEN /\ stageJob' = NoJob
          /\ stageResult' = ConfigError("Stage not found")
          /\ stagePc' = "done"
          /\ cmdIndex' = 0
     ELSE IF Len(input.commands) = 0
     THEN /\ stageJob' = CompleteJobFailure(StartJob(NoJob))
          /\ stageResult' = ConfigError("No valid commands")
          /\ stagePc' = "done"
          /\ cmdIndex' = 0
     ELSE /\ stageJob' = StartJob(NoJob)
          /\ stageResult' = NoResult
          /\ stagePc' = IF input.parallel THEN "launch" ELSE "seq"
          /\ cmdIndex' = 1

\* runStage from the end of its loop to its return: the stage job is completed
\* and stage.allow_failure is folded into the result.
StageEpilogue(ok, ts, cj) ==
  /\ stageSuccess' = ok
  /\ cmdJob' = IF sink THEN cleanupStageJobs(cj, StageChildren(ts)) ELSE cj
  /\ stageJob' = StageJobCompletion(ok, stageJob)
  /\ stageResult' = StageOutcome(ok, stage.allow_failure)
  /\ stagePc' = "done"

\* runCommand of a process task from its entry to the await of the exec promise:
\* startCommand, then, with `ignored` the answer of the ignore predicate for the
\* working directory, either completeJobFailure and a failed result (the promise
\* runCommand returned is settled) or the spawn.
RunCommandState(ignored) == IF ignored THEN "settled" ELSE "running"
RunCommandResult(ignored) == IF ignored THEN IgnoredResult ELSE NoResult
RunCommandJob(j, ignored) == IF ignored THEN CompleteJobFailure(StartJob(j)) ELSE StartJob(j)

\* The job calls of runCommand once the process has closed.
CompleteCommandJob(j, result) == IF result.success THEN CompleteJobSuccess(j) ELSE CompleteJobFailure(j)

\* The user calls runStage.
RunStage ==
  /\ callKind = "none"
  /\ callKind' = "stage"
  /\ \E found \in BOOLEAN, l \in CommandLists : \E input \in StageInputs(l) : BeginStage(found, input)
  /\ UNCHANGED <<auxVars, sink, seqVars>>

\* Sequential mode: one iteration of the loop up to its first await (or its
\* return, continue or the end of the loop).
SeqStep ==
  /\ stagePc = "seq"
  /\ LET n == commands[cmdIndex] IN
     IF ~areDependenciesSatisfied(cmd[n], executedCommands)
     THEN IF ~SkipsUnsatisfied(cmd[n])
          THEN /\ taskState' = [taskState EXCEPT ![n] = "deperr"]
               /\ stageResult' = DependencyError
               /\ stagePc' = "done"
               /\ UNCHANGED <<cmdIndex, results, stageSuccess, cmdJob, stageJob>>
          ELSE /\ taskState' = [taskState EXCEPT ![n] = "skipped"]
               /\ UNCHANGED results
               /\ IF cmdIndex = Len(commands)
                  THEN /\ StageEpilogue(stageSuccess, taskState', cmdJob)
                       /\ UNCHANGED cmdIndex
                  ELSE /\ cmdIndex' = cmdIndex + 1
                       /\ UNCHANGED <<stagePc, stageSuccess, stageResult, cmdJob, stageJob>>
     ELSE \E ignored \in BOOLEAN :
          /\ taskState' = [taskState EXCEPT ![n] = RunCommandState(ignored)]
          /\ results' = [results EXCEPT ![n] = RunCommandResult(ignored)]
          /\ cmdJob' = [cmdJob EXCEPT ![n] = RunCommandJob(@, ignored)]
          /\ stagePc' = AfterRunCommand
          /\ UNCHANGED <<cmdIndex, stageSuccess, stageResult, stageJob>>
  /\ UNCHANGED <<auxVars, sink, callKind, seqVars, stage, commands, cmd, executedCommands>>

\* Mutant: only a task that succeeded counts as executed.
PushExecutedOnSuccess(executed, n, result) == IF result.success THEN Append(executed, n) ELSE executed

\* executedCommands.push(command.name) after `await this.runCommand`: the name
\* is pushed whatever the result is.
PushExecuted(executed, n, result) == Append(executed, n)

\* Sequential mode: the continuation of `await this.runCommand`, given the
\* result and the command jobs after runCommand: the name is pushed, and a fatal
\* result breaks the loop.
SeqContinue(n, result, cj) ==
  /\ executedCommands' = PushExecuted(executedCommands, n, result)
  /\ taskState' = [taskState EXCEPT ![n] = "returned"]
  /\ results' = [results EXCEPT ![n] = result]
  /\ IF CommandFatal(result, cmd[n])
     THEN StageEpilogue(FALSE, taskState', cj)
     ELSE /\ stagePc' = IF stagePc = "seqwait" THEN "pause" ELSE stagePc
          /\ cmdJob' = cj
          /\ UNCHANGED <<stageSuccess, stageResult, stageJob>>

\* Parallel mode: the continuation of `await this.runCommand` in the map callback.
ParContinue(n, result, cj) ==
  /\ executedCommands' = PushExecuted(executedCommands, n, result)
  /\ taskState' = [taskState EXCEPT ![n] = "returned"]
  /\ results' = [results EXCEPT ![n] = result]
  /\ cmdJob' = cj
  /\ UNCHANGED <<stagePc, stageSuccess, stageResult, stageJob>>

\* The `canceled` local of the runCommand call of n: set by its kill handler.
canceled(n) == killHandler[n] # "idle"

\* The close event of a task's process with exit code `code`: runCommand completes
\* its job and returns, and the awaiting runStage code continues.  When the task
\* was canceled the handler returns at once: the exec promise is neither
\* resolved nor rejected, and runCommand stays at its await.
ProcessClose(n, code) ==
  /\ taskState[n] = "running"
  /\ EventLoopFree
  /\ NoPendingContinuation
  /\ IF canceled(n)
     THEN /\ taskState' = [taskState EXCEPT ![n] = "canceled"]
          /\ UNCHANGED <<stagePc, executedCommands, results, stageSuccess, stageResult, cmdJob, stageJob>>
     ELSE LET result == ProcessResult(code)
              cj == [cmdJob EXCEPT ![n] = CompleteCommandJob(@, result)]
          IN IF stage.parallel THEN ParContinue(n, result, cj) ELSE SeqContinue(n, result, cj)
  /\ UNCHANGED <<auxVars, sink, callKind, seqVars, stage, commands, cmd, cmdIndex>>

\* The continuation of `await this.runCommand` for a task whose runCommand had
\* returned at once (ignored working directory).
ResumeSettled(n) ==
  /\ taskState[n] = "settled"
  /\ EventLoopFree
  /\ IF stage.parallel THEN ParContinue(n, results[n], cmdJob) ELSE SeqContinue(n, results[n], cmdJob)
  /\ UNCHANGED <<auxVars, sink, callKind, seqVars, stage, commands, cmd, cmdIndex>>

\* Sequential mode: the 500 ms pause after a task has ended, then the next
\* iteration or the end of the loop.
SeqPause ==
  /\ stagePc = "pause"
  /\ IF cmdIndex = Len(commands)
     THEN /\ StageEpilogue(stageSuccess, taskState, cmdJob)
          /\ UNCHANGED cmdIndex
     ELSE /\ cmdIndex' = cmdIndex + 1
          /\ stagePc' = "seq"
          /\ UNCHANGED <<stageSuccess, stageResult, cmdJob, stageJob>>
  /\ UNCHANGED <<auxVars, sink, callKind, seqVars, stage, commands, cmd, executedCommands, taskState, results>>

\* Parallel mode: the map callback of the next command, up to its first await.
ParLaunch ==
  /\ stagePc = "launch"
  /\ LET n == commands[cmdIndex] IN
     IF ~areDependenciesSatisfied(cmd[n], executedCommands)
     THEN /\ taskState' = [taskState EXCEPT ![n] = IF SkipsUnsatisfied(cmd[n]) THEN "skipped" ELSE "deperr"]
          /\ results' = [results EXCEPT ![n] = IF SkipsUnsatisfied(cmd[n]) THEN SkippedResult ELSE DependencyError]
          /\ UNCHANGED cmdJob
     ELSE \E ignored \in BOOLEAN :
          /\ taskState' = [taskState EXCEPT ![n] = RunCommandState(ignored)]
          /\ results' = [results EXCEPT ![n] = RunCommandResult(ignored)]
          /\ cmdJob' = [cmdJob EXCEPT ![n] = RunCommandJob(@, ignored)]
  /\ IF cmdIndex = Len(commands)
     THEN stagePc' = "await" /\ UNCHANGED cmdIndex
     ELSE cmdIndex' = cmdIndex + 1 /\ UNCHANGED stagePc
  /\ UNCHANGED <<auxVars, sink, callKind, seqVars, stage, commands, cmd, executedCommands,
                 stageSuccess, stageResult, stageJob>>

\* Mutant: the results are processed as soon as one command has a result.
AllSettledAny == \E n \in Range(commands) : taskState[n] \in Terminal

\* Parallel mode: Promise.all has every result; the results are processed and
\* the stage returns.
AllSettled == \A n \in Range(commands) : taskState[n] \in Terminal
ParallelSuccess == \A n \in Range(commands) : ~CommandFatal(results[n], cmd[n])
ParFinish ==
  /\ stagePc = "await"
  /\ AllSettled
  /\ StageEpilogue(ParallelSuccess, taskState, cmdJob)
  /\ UNCHANGED <<auxVars, sink, callKind, seqVars, stage, commands, cmd, executedCommands, cmdIndex,
                 taskState, results>>

-----------------------------------------------------------------------------
\* runSequence from the end of its loop to its return.
SequenceEpilogue(ok) ==
  /\ sequenceSuccess' = ok
  /\ sequenceJob' = IF ok THEN CompleteJobSuccess(sequenceJob) ELSE CompleteJobFailure(sequenceJob)
  /\ seqResult' = IF ok THEN ExecutionResult(TRUE, {}, "none")
                  ELSE ExecutionResult(FALSE, {}, "Sequence execution failed")
  /\ seqPc' = "done"

\* The user calls runSequence: findSequence, startSequence, getSequenceStages.
RunSequence ==
  /\ callKind = "none"
  /\ callKind' = "sequence"
  /\ \E found \in BOOLEAN, n \in 0..NumStages :
       /\ seqLen' = n
       /\ IF ~found
          THEN /\ seqResult' = ConfigError("Sequence not found")
               /\ seqPc' = "done"
               /\ UNCHANGED <<sequenceJob, stageIndex>>
          ELSE IF n = 0
          THEN /\ sequenceJob' = CompleteJobFailure(StartJob(sequenceJob))
               /\ seqResult' = ConfigError("No valid stages")
               /\ seqPc' = "done"
               /\ UNCHANGED stageIndex
          ELSE /\ sequenceJob' = StartJob(sequenceJob)
               /\ stageIndex' = 1
               /\ seqPc' = "run"
               /\ UNCHANGED seqResult
  /\ UNCHANGED <<auxVars, sink, stageStatus, sequenceSuccess, seqExecuted, stageVars>>

\* One iteration of the loop of runSequence: runStage is called for the next stage.
SeqRunStage ==
  /\ seqPc = "run"
  /\ \E l \in CommandLists : \E input \in SequenceStageInputs(l) : BeginStage(TRUE, input)
  /\ stageStatus' = [stageStatus EXCEPT ![stageIndex] = "running"]
  /\ seqPc' = "wait"
  /\ UNCHANGED <<auxVars, sink, callKind, seqLen, stageIndex, sequenceSuccess, seqResult, sequenceJob, seqExecuted>>

\* The continuation of `await this.runStage`: an unsuccessful result breaks the loop.
SeqStageReturned ==
  /\ seqPc = "wait"
  /\ StageHasReturned
  /\ stageStatus' = [stageStatus EXCEPT ![stageIndex] = "returned"]
  /\ seqExecuted' = seqExecuted \cup Range(executedCommands)
  /\ IF SequenceBreaks(stageResult)
     THEN SequenceEpilogue(FALSE)
     ELSE /\ seqPc' = "pause"
          /\ UNCHANGED <<sequenceSuccess, seqResult, sequenceJob>>
  /\ IF stagePc = "done" THEN NoStageFrame ELSE UNCHANGED stageVars
  /\ UNCHANGED <<auxVars, sink, callKind, seqLen, stageIndex>>

\* The 1000 ms pause after a stage, then the next iteration or the end of the loop.
SeqStagePause ==
  /\ seqPc = "pause"
  /\ IF stageIndex = seqLen
     THEN SequenceEpilogue(TRUE) /\ UNCHANGED stageIndex
     ELSE /\ stageIndex' = stageIndex + 1
          /\ seqPc' = "run"
          /\ UNCHANGED <<sequenceSuccess, seqResult, sequenceJob>>
  /\ UNCHANGED <<auxVars, sink, callKind, seqLen, stageStatus, seqExecuted, stageVars>>

Next ==
  \/ RunStage
  \/ SeqStep
  \/ \E n \in Names, code \in ExitCodes : ProcessClose(n, code)
  \/ \E n \in Names : ResumeSettled(n)
  \/ SeqPause
  \/ ParLaunch
  \/ ParFinish
  \/ RunSequence
  \/ SeqRunStage
  \/ SeqStageReturned
  \/ SeqStagePause

Spec == Init /\ [][Next]_vars

-----------------------------------------------------------------------------
\* Cancellation.  runCommand registers a kill handler with the sink for its job;
\* the sink calls it when the user asks to stop the job.

\* A kill request for the running task n: the handler sets canceled and calls
\* killProcessAndChildren, which it awaits.
KillRequest(n) ==
  /\ sink
  /\ taskState[n] = "running"
  /\ killHandler[n] = "idle"
  /\ EventLoopFree
  /\ NoPendingContinuation
  /\ killHandler' = [killHandler EXCEPT ![n] = "running"]
  /\ UNCHANGED <<sink, callKind, seqVars, stageVars, fnVars, treeVars, pollVars, ioVars, flowVars, dockerVars>>

\* killProcessAndChildren has returned (or thrown): the handler completes the
\* job of the command as a failure.
KillFinished(n) ==
  /\ killHandler[n] = "running"
  /\ EventLoopFree
  /\ NoPendingContinuation
  /\ killHandler' = [killHandler EXCEPT ![n] = "done"]
  /\ cmdJob' = [cmdJob EXCEPT ![n] = CompleteJobFailure(@)]
  /\ UNCHANGED <<sink, callKind, seqVars, fnVars, treeVars, pollVars, ioVars, flowVars, dockerVars,
                 stagePc, stage, commands, cmd, executedCommands, cmdIndex, taskState, results, stageSuccess, stageResult, stageJob>>

\* What the engine does by itself in a runStage call, and the events of the
\* processes: every action but the calls of the user.
StageEngine ==
  \/ SeqStep
  \/ \E n \in Names, code \in ExitCodes : ProcessClose(n, code)
  \/ \E n \in Names : ResumeSettled(n)
  \/ SeqPause
  \/ ParLaunch
  \/ ParFinish
  \/ \E n \in Names : KillFinished(n)

\* runStage calls in which the user may ask the sink to stop a running command.
CancelNext ==
  \/ RunStage
  \/ \E n \in Names : KillRequest(n)
  \/ StageEngine

CancelSpec == Init /\ [][CancelNext]_vars

\* The event loop runs every handler and continuation that is ready, the kill
\* routine ends, and every process eventually exits.
CancelFairSpec == CancelSpec /\ WF_vars(StageEngine)

-----------------------------------------------------------------------------
\* A call of runCommand on its own for a process task, with the events of its
\* process in full: the exit code (a number, or none when a signal ended the
\* process), the captured stderr (empty or not), and the failure to spawn.
CloseCodeValues == {{}} \cup {{c} : c \in CloseCodes}
StderrTexts == {"", "stderr"}

\* The user calls runCommand for n.  The working directory is ignored, or
\* cp.exec gives a process, or it gives none and its 'error' event is pending.
RunCommand(n) ==
  /\ callKind = "none"
  /\ callKind' = "command"
  /\ \E a \in BOOLEAN, start \in {"ignored", "spawned", "spawnfail"} :
       /\ cmd' = [cmd EXCEPT ![n] = [allow_failure |-> a, depends_on |-> {}]]
       /\ taskState' = [taskState EXCEPT ![n] =
                          IF start = "ignored" THEN "returned"
                          ELSE IF start = "spawned" THEN "running" ELSE "spawnfail"]
       /\ results' = [results EXCEPT ![n] = RunCommandResult(start = "ignored")]
       /\ cmdJob' = [cmdJob EXCEPT ![n] = RunCommandJob(@, start = "ignored")]
  /\ UNCHANGED <<auxVars, sink, seqVars, stagePc, stage, commands, executedCommands, cmdIndex,
                 stageSuccess, stageResult, stageJob>>

\* The close event of the process of n, with its exit code and the stderr
\* text captured so far.
CommandClose(n, code, stderr) ==
  /\ callKind = "command"
  /\ taskState[n] = "running"
  /\ fnCall' = [fn |-> "close", name |-> n, code |-> code, stderr |-> stderr]
  /\ IF canceled(n)
     THEN /\ taskState' = [taskState EXCEPT ![n] = "canceled"]
          /\ UNCHANGED <<results, cmdJob>>
     ELSE LET result == CloseResult(code, stderr) IN
          /\ taskState' = [taskState EXCEPT ![n] = IF code = {0} THEN "returned"
                                                   ELSE RunCommandCatch(CloseError(code, stderr)).state]
          /\ results' = [results EXCEPT ![n] = IF code = {0} THEN result
                                               ELSE RunCommandCatch(CloseError(code, stderr)).result]
          /\ cmdJob' = [cmdJob EXCEPT ![n] = IF taskState'[n] = "returned"
                                             THEN CompleteCommandJob(@, result) ELSE @]
  /\ UNCHANGED <<killHandler, fnResult, treeVars, pollVars, ioVars, flowVars, dockerVars, sink, callKind, seqVars, stagePc, stage, commands, cmd,
                 executedCommands, cmdIndex, stageSuccess, stageResult, stageJob>>

\* The 'error' event of a process that could not be spawned: the exec promise
\* is rejected with the error.
CommandError(n) ==
  /\ callKind = "command"
  /\ taskState[n] = "spawnfail"
  /\ fnCall' = [fn |-> "error", name |-> n, code |-> SpawnError.code, stderr |-> SpawnError.stderr]
  /\ taskState' = [taskState EXCEPT ![n] = RunCommandCatch(SpawnError).state]
  /\ results' = [results EXCEPT ![n] = RunCommandCatch(SpawnError).result]
  /\ cmdJob' = [cmdJob EXCEPT ![n] = IF taskState'[n] = "returned" THEN CompleteJobFailure(@) ELSE @]
  /\ UNCHANGED <<killHandler, fnResult, treeVars, pollVars, ioVars, flowVars, dockerVars, sink, callKind, seqVars, stagePc, stage, commands, cmd,
                 executedCommands, cmdIndex, stageSuccess, stageResult, stageJob>>

CommandNext ==
  \/ \E n \in Names : RunCommand(n)
  \/ \E n \in Names, code \in CloseCodeValues, stderr \in StderrTexts : CommandClose(n, code, stderr)
  \/ \E n \in Names : CommandError(n)
  \/ \E n \in Names : KillRequest(n)
  \/ \E n \in Names : KillFinished(n)

CommandSpec == Init /\ [][CommandNext]_vars

-----------------------------------------------------------------------------
\* Calls of areDependenciesSatisfied on its own, with depends_on in each of the
\* forms the configuration allows: absent, one name, a list of names.
NameLists == UNION {[1..k -> Names] : k \in 0..MaxTasks}
ExecutedLists == {l \in NameLists : \A i, j \in 1..Len(l) : i # j => l[i] # l[j]}
DependsOnForms ==
  {[kind |-> "none", names |-> <<>>]}
    \cup {[kind |-> "name", names |-> <<n>>] : n \in Names}
    \cup {[kind |-> "list", names |-> l] : l \in NameLists}

\* "Array.isArray(command.depends_on) ? command.depends_on : [command.depends_on]"
Dependencies(d) == IF d.kind = "list" THEN d.names ELSE <<d.names[1]>>
\* The names a depends_on lists; none when "!command.depends_on".
DependsOn(d) == IF d.kind = "none" THEN {} ELSE Range(Dependencies(d))

CheckDependencies ==
  /\ \E d \in DependsOnForms, a \in BOOLEAN, executed \in ExecutedLists :
       /\ fnCall' = [fn |-> "areDependenciesSatisfied",
                     command |-> [allow_failure |-> a, depends_on |-> d],
                     executed |-> executed]
       /\ fnResult' = [fn |-> "areDependenciesSatisfied",
                       value |-> areDependenciesSatisfied([allow_failure |-> a, depends_on |-> DependsOn(d)], executed),
                       executed |-> executed]
  /\ UNCHANGED <<sink, callKind, seqVars, stageVars, killHandler, treeVars, pollVars, ioVars, flowVars, dockerVars>>

PureNext == CheckDependencies

PureSpec == Init /\ [][PureNext]_vars

-----------------------------------------------------------------------------
\* Texts.  A text is a sequence of characters; a variable mapping is the list
\* of its entries in the order Object.entries gives them.

Texts(k) == UNION {[1..j -> Chars] : j \in 0..k}
\* The values of the variables: the short texts, and `$` followed by one more character.
ValueTexts == Texts(1) \cup {<<"$", c>> : c \in Chars}
VariableMaps ==
  {<<>>}
    \cup {<<[key |-> k, value |-> v]>> : k \in VarNames, v \in ValueTexts}
    \cup {m \in {<<[key |-> k1, value |-> v1], [key |-> k2, value |-> v2]>> :
                   k1 \in VarNames, k2 \in VarNames, v1 \in ValueTexts, v2 \in ValueTexts} :
            m[1].key # m[2].key}

\* The replacement string of String.prototype.replace: `$$` inserts one `$`.
RECURSIVE Replacement(_)
Replacement(value) ==
  IF value = <<>> THEN <<>>
  ELSE IF Len(value) >= 2 /\ value[1] = "$" /\ value[2] = "$"
       THEN <<"$">> \o Replacement(SubSeq(value, 3, Len(value)))
       ELSE <<value[1]>> \o Replacement(Tail(value))

\* The pattern matches text at position i; with boundary, `\b` follows it.
MatchesAt(text, i, pattern, boundary) ==
  /\ i + Len(pattern) - 1 <= Len(text)
  /\ SubSeq(text, i, i + Len(pattern) - 1) = pattern
  /\ boundary => (i + Len(pattern) > Len(text) \/ text[i + Len(pattern)] \notin WordChars)

\* text.replace(new RegExp(pattern, 'g'), value) from position i on: the matches
\* are found from left to right and what is inserted is not searched again.
RECURSIVE ReplaceFrom(_, _, _, _, _)
ReplaceFrom(text, i, pattern, boundary, value) ==
  IF i > Len(text) THEN <<>>
  ELSE IF MatchesAt(text, i, pattern, boundary)
       THEN Replacement(value) \o ReplaceFrom(text, i + Len(pattern), pattern, boundary, value)
       ELSE <<text[i]>> \o ReplaceFrom(text, i + 1, pattern, boundary, value)

\* `\$\{key\}` and `\$key\b`
BracedPattern(key) == <<"$", "{">> \o key \o <<"}">>
BarePattern(key) == <<"$">> \o key

\* One loop of processVariables over the entries of the variables.
RECURSIVE ReplaceLoop(_, _, _)
ReplaceLoop(text, entries, braced) ==
  IF entries = <<>> THEN text
  ELSE LET e == Head(entries)
           replaced == IF braced THEN ReplaceFrom(text, 1, BracedPattern(e.key), FALSE, e.value)
                       ELSE ReplaceFrom(text, 1, BarePattern(e.key), TRUE, e.value)
       IN  ReplaceLoop(replaced, Tail(entries), braced)

processVariables(commandStr, variables) ==
  ReplaceLoop(ReplaceLoop(commandStr, variables, TRUE), variables, FALSE)

\* A caller substitutes a text, and substitutes the result once more.
Substitute ==
  /\ fnCall = NoCall
  /\ \E text \in Texts(MaxLen), variables \in VariableMaps :
       /\ fnCall' = [fn |-> "processVariables", text |-> text, variables |-> variables]
       /\ fnResult' = [fn |-> "processVariables",
                       value |-> processVariables(text, variables),
                       again |-> processVariables(processVariables(text, variables), variables)]
  /\ UNCHANGED <<sink, callKind, seqVars, stageVars, killHandler, treeVars, pollVars, ioVars, flowVars, dockerVars>>

SubstituteNext == Substitute

SubstituteSpec == Init /\ [][SubstituteNext]_vars

-----------------------------------------------------------------------------
\* The VariableManager and extractOutputVariables.  The captured output of a
\* task is a list of lines; a line is log text or holds a marker
\* `::set-output name=NAME::VALUE`, VALUE being the rest of the line.

\* variableManager.setVariable(name, value): the entry of the name takes the
\* value and keeps its place; a new name is added last.
setVariable(entries, name, value) ==
  IF \E i \in 1..Len(entries) : entries[i].key = name
  THEN [i \in 1..Len(entries) |-> IF entries[i].key = name THEN [key |-> name, value |-> value]
                                  ELSE entries[i]]
  ELSE Append(entries, [key |-> name, value |-> value])

\* The value the store holds for a name; Unset when it holds none.
Unset == <<"undefined">>
getVariable(entries, name) ==
  IF \E i \in 1..Len(entries) : entries[i].key = name
  THEN entries[CHOOSE i \in 1..Len(entries) : entries[i].key = name].value
  ELSE Unset

\* The names a marker may carry (the regular expression ignores case) and the
\* values it may have.
UpperCase(c) == IF c = "a" THEN "A" ELSE IF c = "b" THEN "B" ELSE c
ToUpper(text) == [i \in 1..Len(text) |-> UpperCase(text[i])]
MarkerNames == VarNames \cup {<<"a">>}
ValueChars == {" ", "v"}
MarkerValues == UNION {[1..j -> ValueChars] : j \in 0..MaxValueLen}
LogLine == [marker |-> FALSE, name |-> <<>>, value |-> <<>>]
MarkerLines == {[marker |-> TRUE, name |-> n, value |-> v] : n \in MarkerNames, v \in MarkerValues}
OutputTexts(k) == UNION {[1..j -> {LogLine} \cup MarkerLines] : j \in 0..k}

\* String.prototype.trim
RECURSIVE TrimStart(_)
TrimStart(text) == IF text # <<>> /\ Head(text) = " " THEN TrimStart(Tail(text)) ELSE text
RECURSIVE TrimEnd(_)
TrimEnd(text) ==
  IF text # <<>> /\ text[Len(text)] = " " THEN TrimEnd(SubSeq(text, 1, Len(text) - 1)) ELSE text
Trim(text) == TrimEnd(TrimStart(text))

\* stdout.match(setOutputRegex): the lines the expression of the name matches,
\* and the match it returns, the first one.
MarkerMatches(stdout, outputName) ==
  {i \in 1..Len(stdout) : stdout[i].marker /\ ToUpper(stdout[i].name) = ToUpper(outputName)}
FirstMatch(stdout, outputName) ==
  stdout[CHOOSE i \in MarkerMatches(stdout, outputName) :
           \A j \in MarkerMatches(stdout, outputName) : i <= j]

\* "if (match && match[1])"
MatchTaken(stdout, outputName) ==
  /\ MarkerMatches(stdout, outputName) # {}
  /\ FirstMatch(stdout, outputName).value # <<>>

\* The calls of setVariable the loop over Object.entries(command.outputs) makes.
RECURSIVE ExtractedVariables(_, _)
ExtractedVariables(outputs, stdout) ==
  IF outputs = <<>> THEN <<>>
  ELSE (IF MatchTaken(stdout, Head(outputs))
        THEN <<[key |-> Head(outputs), value |-> Trim(FirstMatch(stdout, Head(outputs)).value)]>>
        ELSE <<>>)
       \o ExtractedVariables(Tail(outputs), stdout)

RECURSIVE SetVariables(_, _)
SetVariables(entries, sets) ==
  IF sets = <<>> THEN entries
  ELSE SetVariables(setVariable(entries, Head(sets).key, Head(sets).value), Tail(sets))

\* command.outputs: absent, or the declared names in the order of the entries.
OutputNameLists == {l \in UNION {[1..k -> VarNames] : k \in 0..Cardinality(VarNames)} : \A i, j \in 1..Len(l) : i # j => l[i] # l[j]}
OutputsForms == {NoOutputs} \cup {[declared |-> TRUE, names |-> l] : l \in OutputNameLists}

extractOutputVariables(outputs, stdout) ==
  IF ~outputs.declared THEN <<>> ELSE ExtractedVariables(outputs.names, stdout)

\* An earlier task has set a variable.
OldValue == <<"o">>
SetVariable(name) ==
  /\ fnCall = NoCall
  /\ getVariable(store, name) = Unset
  /\ store' = setVariable(store, name, OldValue)
  /\ UNCHANGED <<sink, callKind, seqVars, stageVars, killHandler, fnVars, treeVars, pollVars, files, flowVars, dockerVars>>

\* The success path of runCommand calls extractOutputVariables with the stdout
\* of the task; the stderr of the task is not handed over.
ExtractOutputVariables ==
  /\ fnCall = NoCall
  /\ \E outputs \in OutputsForms, stdout \in OutputTexts(MaxLines), stderr \in OutputTexts(1) :
       /\ fnCall' = [fn |-> "extractOutputVariables", outputs |-> outputs, stdout |-> stdout,
                     stderr |-> stderr, before |-> store]
       /\ fnResult' = [fn |-> "extractOutputVariables", sets |-> extractOutputVariables(outputs, stdout)]
       /\ store' = SetVariables(store, extractOutputVariables(outputs, stdout))
  /\ UNCHANGED <<sink, callKind, seqVars, stageVars, killHandler, treeVars, pollVars, files, flowVars, dockerVars>>

ExtractNext ==
  \/ \E name \in VarNames : SetVariable(name)
  \/ ExtractOutputVariables

ExtractSpec == Init /\ [][ExtractNext]_vars

-----------------------------------------------------------------------------
\* saveOutputToFile.  A captured text is a list of tokens: "L" is log text,
\* "1" a number, "a" and "b" the keys `"a":` and `"b":` of an object, and the
\* brackets and the comma stand for themselves.
JsonChars == {"L", "1", "a", "b", ",", "{", "}", "[", "]"}
JsonKeys == {"a", "b"}
JsonTexts(k) == UNION {[1..j -> JsonChars] : j \in 0..k}
\* `Log: ok {"a":1,"b":[2,3]} trailing`
ExampleText == <<"L", "{", "a", "1", ",", "b", "[", "1", ",", "1", "]", "}", "L">>

\* output.indexOf(c): the position of the first c, counted from 0, or -1.
IndexOf(text, c) ==
  IF \E i \in 1..Len(text) : text[i] = c
  THEN (CHOOSE i \in 1..Len(text) : text[i] = c /\ \A j \in 1..(i - 1) : text[j] # c) - 1
  ELSE -1
Max(x, y) == IF x >= y THEN x ELSE y

\* "const jsonStart = Math.max(0, output.indexOf('{'))"
JsonStart(output) == Max(0, IndexOf(output, "{"))
JsonStartArray(output) == IndexOf(output, "[")
StartPos(output) ==
  IF JsonStartArray(output) # -1 /\ (JsonStartArray(output) < JsonStart(output) \/ JsonStart(output) = -1)
  THEN JsonStartArray(output)
  ELSE JsonStart(output)

\* output.charAt(i), i counted from 0; the empty string past the end.
CharAt(text, i) == IF i + 1 \in 1..Len(text) THEN text[i + 1] ELSE ""

\* The loop that counts the brackets of the kind of startChar from position i
\* on: the position after the bracket that brings the depth back to 0, or -1.
RECURSIVE EndPos(_, _, _, _)
EndPos(output, startChar, i, depth) ==
  IF i >= Len(output) THEN -1
  ELSE LET char == CharAt(output, i) IN
       IF (char = "{" /\ startChar = "{") \/ (char = "[" /\ startChar = "[")
       THEN EndPos(output, startChar, i + 1, depth + 1)
       ELSE IF (char = "}" /\ startChar = "{") \/ (char = "]" /\ startChar = "[")
            THEN IF depth - 1 = 0 THEN i + 1 ELSE EndPos(output, startChar, i + 1, depth - 1)
            ELSE EndPos(output, startChar, i + 1, depth)

\* output.substring(start, end), positions counted from 0
Substring(text, start, end) == SubSeq(text, start + 1, end)

\* JSON.parse followed by JSON.stringify(parsed, null, 2), on the tokens.  A
\* value at depth d is parsed from position i (counted from 1); the result says
\* whether a value stands there, where it ends and how it is printed.
Indent(d) == [i \in 1..d |-> "  "]
NewLine(d) == <<"\n">> \o Indent(d)
NoParse == [ok |-> FALSE, next |-> 0, out |-> <<>>]

\* A key of an object given twice keeps its first place and takes the last value.
RECURSIVE MergePairs(_, _)
MergePairs(acc, pairs) ==
  IF pairs = <<>> THEN acc
  ELSE LET p == Head(pairs) IN
       MergePairs(IF \E i \in 1..Len(acc) : acc[i].key = p.key
                  THEN [i \in 1..Len(acc) |-> IF acc[i].key = p.key THEN p ELSE acc[i]]
                  ELSE Append(acc, p),
                  Tail(pairs))

RECURSIVE PrintPairs(_, _)
PrintPairs(pairs, d) ==
  IF pairs = <<>> THEN <<>>
  ELSE NewLine(d) \o <<Head(pairs).key, " ">> \o Head(pairs).out
         \o (IF Len(pairs) > 1 THEN <<",">> ELSE <<>>) \o PrintPairs(Tail(pairs), d)

RECURSIVE ParseValue(_, _, _)
RECURSIVE ParseElements(_, _, _)
RECURSIVE ParsePairs(_, _, _)
ParseValue(text, i, d) ==
  IF i > Len(text) THEN NoParse
  ELSE IF text[i] = "1" THEN [ok |-> TRUE, next |-> i + 1, out |-> <<"1">>]
  ELSE IF text[i] = "["
       THEN IF CharAt(text, i) = "]" THEN [ok |-> TRUE, next |-> i + 2, out |-> <<"[", "]">>]
            ELSE LET r == ParseElements(text, i + 1, d + 1) IN
                 IF r.ok /\ CharAt(text, r.next - 1) = "]"
                 THEN [ok |-> TRUE, next |-> r.next + 1, out |-> <<"[">> \o r.out \o NewLine(d) \o <<"]">>]
                 ELSE NoParse
  ELSE IF text[i] = "{"
       THEN IF CharAt(text, i) = "}" THEN [ok |-> TRUE, next |-> i + 2, out |-> <<"{", "}">>]
            ELSE LET r == ParsePairs(text, i + 1, d + 1) IN
                 IF r.ok /\ CharAt(text, r.next - 1) = "}"
                 THEN [ok |-> TRUE, next |-> r.next + 1,
                       out |-> <<"{">> \o PrintPairs(MergePairs(<<>>, r.pairs), d + 1) \o NewLine(d) \o <<"}">>]
                 ELSE NoParse
  ELSE NoParse

\* The elements of an array from position i on, each on a line of its own.
ParseElements(text, i, d) ==
  LET v == ParseValue(text, i, d) IN
  IF ~v.ok THEN NoParse
  ELSE IF CharAt(text, v.next - 1) = ","
       THEN LET r == ParseElements(text, v.next + 1, d) IN
            IF r.ok THEN [ok |-> TRUE, next |-> r.next, out |-> NewLine(d) \o v.out \o <<",">> \o r.out]
            ELSE NoParse
       ELSE [ok |-> TRUE, next |-> v.next, out |-> NewLine(d) \o v.out]

\* The pairs of an object from position i on.
ParsePairs(text, i, d) ==
  IF CharAt(text, i - 1) \notin JsonKeys THEN [ok |-> FALSE, next |-> 0, pairs |-> <<>>]
  ELSE LET v == ParseValue(text, i + 1, d) IN
       IF ~v.ok THEN [ok |-> FALSE, next |-> 0, pairs |-> <<>>]
       ELSE IF CharAt(text, v.next - 1) = ","
            THEN LET r == ParsePairs(text, v.next + 1, d) IN
                 IF r.ok THEN [ok |-> TRUE, next |-> r.next,
                               pairs |-> <<[key |-> text[i], out |-> v.out]>> \o r.pairs]
                 ELSE [ok |-> FALSE, next |-> 0, pairs |-> <<>>]
            ELSE [ok |-> TRUE, next |-> v.next, pairs |-> <<[key |-> text[i], out |-> v.out]>>]

\* JSON.parse accepts the whole text as one value.
Parses(jsonContent) ==
  /\ ParseValue(jsonContent, 1, 0).ok
  /\ ParseValue(jsonContent, 1, 0).next = Len(jsonContent) + 1
\* JSON.stringify(JSON.parse(jsonContent), null, 2)
Stringify(jsonContent) == ParseValue(jsonContent, 1, 0).out

\* What the JSON branch writes: the formatted span, or nothing when it falls
\* through to the direct write.
NoJson == [found |-> FALSE, content |-> <<>>]
FormattedJson(output) ==
  LET startPos == StartPos(output)
      endPos == EndPos(output, CharAt(output, startPos), startPos, 0)
  IN  IF startPos # -1 /\ endPos # -1 /\ Parses(Substring(output, startPos, endPos))
      THEN [found |-> TRUE, content |-> Stringify(Substring(output, startPos, endPos))]
      ELSE NoJson

\* The name of the output file: a list of characters, "." and "/" among them,
\* "json" and "txt" being extensions.
ResultsDir == <<".niobium_results", "/">>
\* outputFilename.replace(/\.+$/, '')
RECURSIVE RemoveTrailingPeriods(_)
RemoveTrailingPeriods(name) ==
  IF name # <<>> /\ name[Len(name)] = "." THEN RemoveTrailingPeriods(SubSeq(name, 1, Len(name) - 1))
  ELSE name
\* path.basename: what follows the last separator, trailing separators aside.
RECURSIVE Basename(_)
Basename(name) ==
  IF name # <<>> /\ name[Len(name)] = "/" THEN Basename(SubSeq(name, 1, Len(name) - 1))
  ELSE IF \E i \in 1..Len(name) : name[i] = "/"
       THEN SubSeq(name, (CHOOSE i \in 1..Len(name) : name[i] = "/" /\ \A j \in (i + 1)..Len(name) : name[j] # "/") + 1,
                   Len(name))
       ELSE name
\* baseFilename.endsWith('.json')
EndsWithJson(baseFilename) ==
  /\ Len(baseFilename) >= 2
  /\ baseFilename[Len(baseFilename) - 1] = "."
  /\ baseFilename[Len(baseFilename)] = "json"

OutputFiles ==
  {NoFile, <<"o", ".", "json">>, <<"o", ".", "txt">>, <<"o", ".", "json", ".">>,
   <<"d", "/", "o", ".", "json">>, <<"$", "A", ".", "json">>}

BaseFilename(output_file, variables) ==
  Basename(RemoveTrailingPeriods(processVariables(output_file, variables)))
OutputFilePath(output_file, variables) == ResultsDir \o BaseFilename(output_file, variables)

\* The writes saveOutputToFile makes: none without output_file, for an ignored
\* path or when the file system refuses; else the formatted JSON for a name
\* ending in .json whose JSON was found, and the output itself otherwise.
saveOutputToFile(output_file, output, variables, ignored, refused) ==
  IF output_file = NoFile \/ ignored \/ refused THEN <<>>
  ELSE LET baseFilename == BaseFilename(output_file, variables) IN
       <<[path |-> ResultsDir \o baseFilename,
          content |-> IF EndsWithJson(baseFilename) /\ FormattedJson(output).found
                      THEN FormattedJson(output).content
                      ELSE output]>>

\* runCommand saves the stdout of a task that succeeded.
SaveOutputToFile ==
  /\ fnCall = NoCall
  /\ \E output_file \in OutputFiles, output \in JsonTexts(MaxJson) \cup {ExampleText},
        ignored \in BOOLEAN, refused \in BOOLEAN :
       /\ fnCall' = [fn |-> "saveOutputToFile", output_file |-> output_file, output |-> output,
                     ignored |-> ignored, refused |-> refused]
       /\ fnResult' = [fn |-> "saveOutputToFile"]
       /\ files' = files \o saveOutputToFile(output_file, output, store, ignored, refused)
  /\ UNCHANGED <<sink, callKind, seqVars, stageVars, killHandler, treeVars, pollVars, store, flowVars, dockerVars>>

SaveNext == SaveOutputToFile

SaveSpec == Init /\ [][SaveNext]_vars

-----------------------------------------------------------------------------
\* The calls of runCommand a sequential stage, or the stages of a sequence,
\* make one after the other for process tasks, with the texts of the tasks:
\* the variables are substituted, the process is started, and when it closes
\* its outputs are extracted and its stdout is saved.

MarkerName == <<"A">>

\* A task that publishes the variable, one that consumes it in its command,
\* its environment and the name of its output file, and one that does both
\* and has allow_failure.
PublisherTask ==
  [command |-> <<"-">>, env |-> NoEnv, output_file |-> NoFile,
   outputs |-> [declared |-> TRUE, names |-> <<MarkerName>>], allow_failure |-> FALSE]
ConsumerTask ==
  [command |-> <<"-", "$", "A">>, env |-> <<"$", "{", "A", "}">>,
   output_file |-> <<"$", "A", ".", "txt">>, outputs |-> NoOutputs, allow_failure |-> FALSE]
RepublisherTask ==
  [command |-> <<"$", "{", "A", "}", "-">>, env |-> <<"$", "A">>, output_file |-> <<"o", ".", "txt">>,
   outputs |-> [declared |-> TRUE, names |-> <<MarkerName>>], allow_failure |-> TRUE]
TaskConfigs == {PublisherTask, ConsumerTask, RepublisherTask}

\* What the process of a task writes to stdout: nothing, log text, or a marker
\* of the variable with a value.
PublishedValues == {<<"v">>, <<" ", "v">>, <<"$", "$">>}
TaskOutputs ==
  {<<>>, <<LogLine>>} \cup {<<[marker |-> TRUE, name |-> MarkerName, value |-> v]>> : v \in PublishedValues}

\* Mutant: the working directory is not checked.
IgnoreCheckSkipped(ignored) == FALSE

\* "if (this.shouldIgnorePath(cwd, workspaceRoot))"
IgnoreCheck(ignored) == ignored

\* The environment of the task after the loop that substitutes its values.
ProcessedEnv(env, variables) == IF env = NoEnv THEN NoEnv ELSE processVariables(env, variables)

\* runCommand up to the await of the exec promise.  `task` is a task of the
\* configuration or the object of the call before, `ignored` the answer of the
\* ignore predicate for its working directory, `spawns` whether cp.exec gets a
\* process.
FlowRunCommand(task, ignored, spawns) ==
  /\ fnCall = NoCall
  /\ callKind = "none"
  /\ flowPc \in {"idle", "returned"}
  /\ flowCalls < MaxCalls
  /\ flowCalls' = flowCalls + 1
  /\ flowCall' = [task |-> task, ignored |-> ignored, store |-> store, files |-> files]
  /\ flowTask' = [task EXCEPT !.env = ProcessedEnv(task.env, store)]
  /\ flowJob' = RunCommandJob(NoJob, IgnoreCheck(ignored))
  /\ IF IgnoreCheck(ignored)
     THEN /\ flowPc' = "returned"
          /\ flowExec' = NoExec
          /\ flowHandler' = FALSE
          /\ flowResult' = IgnoredResult
     ELSE /\ flowPc' = IF spawns THEN "running" ELSE "spawnfail"
          /\ flowExec' = [command |-> processVariables(task.command, store),
                          env |-> ProcessedEnv(task.env, store)]
          /\ flowHandler' = sink
          /\ flowResult' = NoResult
  /\ UNCHANGED <<sink, callKind, seqVars, stageVars, killHandler, fnVars, treeVars, pollVars, ioVars, dockerVars>>

\* Mutant: the outputs are extracted from the stdout of a process whatever its
\* exit code.
ExtractedOnAnyClose(code, outputs, stdout) == extractOutputVariables(outputs, stdout)

\* "this.extractOutputVariables(command, execResult.stdout)" stands after the
\* await of the exec promise, in the try block only: the catch block that
\* handles a rejection has no such call.
ExtractedOnClose(code, outputs, stdout) ==
  IF code = {0} THEN extractOutputVariables(outputs, stdout) ELSE <<>>

\* The close event of the process: code 0 resolves the exec promise and
\* runCommand extracts the outputs and saves stdout; another code rejects it
\* and the catch block saves a stdout that is not empty.
FlowClose(code, stdout, stderr, ignoredFile, refused) ==
  /\ flowPc = "running"
  /\ flowPc' = "returned"
  /\ flowResult' = CloseResult(code, stderr)
  /\ flowJob' = CompleteCommandJob(flowJob, CloseResult(code, stderr))
  /\ store' = SetVariables(store, ExtractedOnClose(code, flowTask.outputs, stdout))
  /\ files' = IF code = {0} \/ stdout # <<>>
              THEN files \o saveOutputToFile(flowTask.output_file, stdout, store', ignoredFile, refused)
              ELSE files
  /\ UNCHANGED <<sink, callKind, seqVars, stageVars, killHandler, fnVars, treeVars, pollVars,
                 flowCalls, flowCall, flowTask, flowExec, flowHandler, dockerVars>>

\* The 'error' event of a process that could not be spawned.
FlowError ==
  /\ flowPc = "spawnfail"
  /\ flowPc' = "returned"
  /\ flowResult' = RunCommandCatch(SpawnError).result
  /\ flowJob' = CompleteJobFailure(flowJob)
  /\ UNCHANGED <<sink, callKind, seqVars, stageVars, killHandler, fnVars, treeVars, pollVars, ioVars,
                 flowCalls, flowCall, flowTask, flowExec, flowHandler, dockerVars>>

\* The sink calls the kill handler of the running task: it sets `canceled`,
\* ends the processes and reports the job as failed with code 130.
FlowKill ==
  /\ flowPc = "running"
  /\ flowHandler
  /\ flowPc' = "canceling"
  /\ flowJob' = CompleteJobFailure(flowJob)
  /\ UNCHANGED <<sink, callKind, seqVars, stageVars, killHandler, fnVars, treeVars, pollVars, ioVars,
                 flowCalls, flowCall, flowTask, flowExec, flowHandler, flowResult, dockerVars>>

\* The close event of a canceled process: "if (canceled) { return; }" leaves
\* the exec promise unsettled, so nothing after its await runs.
FlowCanceledClose ==
  /\ flowPc = "canceling"
  /\ flowPc' = "canceled"
  /\ UNCHANGED <<sink, callKind, seqVars, stageVars, killHandler, fnVars, treeVars, pollVars, ioVars,
                 flowCalls, flowCall, flowTask, flowExec, flowHandler, flowResult, flowJob, dockerVars>>

FlowNext ==
  \/ \E task \in TaskConfigs \cup ({flowTask} \ {NoTask}), ignored \in BOOLEAN, spawns \in BOOLEAN :
       FlowRunCommand(task, ignored, spawns)
  \/ \E code \in CloseCodeValues, stdout \in TaskOutputs, stderr \in StderrTexts,
        ignoredFile \in BOOLEAN, refused \in BOOLEAN :
       FlowClose(code, stdout, stderr, ignoredFile, refused)
  \/ FlowError
  \/ FlowKill
  \/ FlowCanceledClose

FlowSpec == Init /\ [][FlowNext]_vars

-----------------------------------------------------------------------------
\* runDockerCommand: runCommand hands a task with an image to it.  The
\* DockerRunner is a collaborator: startContainer reports a failure in its
\* result or raises, findContainer gives the container or none, and
\* removeContainer logs its own failure and returns.

\* The errors the try block raises.
DockerErrors == {"start", "not found", "wait", "logs", "write"}
DockerFailure(error) == ExecutionResult(FALSE, {1}, error)
DockerSuccess == ExecutionResult(TRUE, {0}, "none")

\* Mutant: the catch block leaves the container behind.
RemovesNever(task) == FALSE

\* "if (containerConfig.remove_when_stopped)", remove_when_stopped being
\* command.remove_after_run
RemovesWhenStopped(task) == task.remove_after_run

\* The catch block: the job is completed as a failure, the removal is awaited
\* for a task marked so, and the failed result is returned.
DockerCatch(error) ==
  /\ flowJob' = CompleteJobFailure(flowJob)
  /\ flowResult' = DockerFailure(error)
  /\ IF RemovesWhenStopped(dockerTask)
     THEN /\ flowPc' = "removing"
          /\ removals' = removals + 1
     ELSE /\ flowPc' = "returned"
          /\ UNCHANGED removals

\* runDockerCommand up to the await of startContainer.  The directories of the
\* results are made before the try block: when the file system refuses, the
\* exception leaves runDockerCommand.
RunDockerCommand(task, refused) ==
  /\ fnCall = NoCall
  /\ callKind = "none"
  /\ flowPc \in {"idle", "returned", "thrown"}
  /\ flowCalls < MaxCalls
  /\ flowCalls' = flowCalls + 1
  /\ dockerTask' = task
  /\ container' = "none"
  /\ removals' = 0
  /\ flowResult' = NoResult
  /\ IF refused
     THEN /\ flowPc' = "thrown"
          /\ flowJob' = NoJob
     ELSE /\ flowPc' = "starting"
          /\ flowJob' = StartJob(NoJob)
  /\ UNCHANGED <<sink, callKind, seqVars, stageVars, killHandler, fnVars, treeVars, pollVars, ioVars,
                 flowCall, flowTask, flowExec, flowHandler>>

\* startContainer has settled.
DockerStarted(outcome) ==
  /\ flowPc = "starting"
  /\ IF outcome = "started"
     THEN /\ flowPc' = "finding"
          /\ container' = "running"
          /\ UNCHANGED <<flowResult, flowJob, removals>>
     ELSE /\ container' = IF outcome = "failed after create" THEN "created" ELSE "none"
          /\ DockerCatch("start")
  /\ UNCHANGED <<sink, callKind, seqVars, stageVars, killHandler, fnVars, treeVars, pollVars, ioVars,
                 flowCalls, flowCall, flowTask, flowExec, flowHandler, dockerTask>>

\* findContainer has settled: without a container the try block raises; a task
\* without command returns at once, another waits for its container.
DockerFound(found) ==
  /\ flowPc = "finding"
  /\ IF ~found
     THEN DockerCatch("not found")
     ELSE IF dockerTask.command
          THEN /\ flowPc' = "waiting"
               /\ UNCHANGED <<flowResult, flowJob, removals>>
          ELSE /\ flowPc' = "returned"
               /\ flowResult' = DockerSuccess
               /\ UNCHANGED <<flowJob, removals>>
  /\ UNCHANGED <<sink, callKind, seqVars, stageVars, killHandler, fnVars, treeVars, pollVars, ioVars,
                 flowCalls, flowCall, flowTask, flowExec, flowHandler, dockerTask, container>>

\* container.wait() has settled, and the rest of the try block with it: the
\* logs are read and, for a task with output_file whose container left no
\* file, written to the file.  `error` is what was raised on the way, if
\* anything, and `zero` whether the run of the container ended with status 0:
\* the value container.wait() resolves to is not read.
DockerWaited(error, zero) ==
  /\ flowPc = "waiting"
  /\ container' = IF zero THEN "exited" ELSE "exited nonzero"
  /\ IF error \in {"wait", "logs"} \/ (error = "write" /\ dockerTask.output_file)
     THEN DockerCatch(error)
     ELSE /\ flowPc' = "returned"
          /\ flowResult' = DockerSuccess
          /\ UNCHANGED <<flowJob, removals>>
  /\ UNCHANGED <<sink, callKind, seqVars, stageVars, killHandler, fnVars, treeVars, pollVars, ioVars,
                 flowCalls, flowCall, flowTask, flowExec, flowHandler, dockerTask>>

\* removeContainer has settled, whether it removed the container or failed.
DockerRemoved(removed) ==
  /\ flowPc = "removing"
  /\ flowPc' = "returned"
  /\ container' = IF removed /\ container # "none" THEN "removed" ELSE container
  /\ UNCHANGED <<sink, callKind, seqVars, stageVars, killHandler, fnVars, treeVars, pollVars, ioVars,
                 flowCalls, flowCall, flowTask, flowExec, flowHandler, flowResult, flowJob, dockerTask, removals>>

DockerNext ==
  \/ \E task \in DockerTasks, refused \in BOOLEAN : RunDockerCommand(task, refused)
  \/ \E outcome \in {"started", "failed", "failed after create", "raised"} : DockerStarted(outcome)
  \/ \E found \in BOOLEAN : DockerFound(found)
  \/ \E error \in {"none", "wait", "logs", "write"}, zero \in BOOLEAN : DockerWaited(error, zero)
  \/ \E removed \in BOOLEAN : DockerRemoved(removed)

DockerSpec == Init /\ [][DockerNext]_vars

-----------------------------------------------------------------------------
\* The process handle of a running task.  runCommand keeps the child pids and
\* the ports it has detected for the task; a timer polls the process table and
\* the ports every two seconds, and the stdout handler scans the output.

\* detectPossiblePorts(processedCommand), over the ports of the model.
detectPossiblePorts(c) ==
  (IF c \in {"npm run dev"} THEN {ViteDefaultPort} ELSE {})
    \cup (IF c \in {"node server"} THEN {ServerDefaultPort, ExpressPort} ELSE {})

\* array.filter(x => !list.includes(x)), for an array given as a set in order.
NotIncluded(found, list) == SortedSeq({x \in found : \A i \in 1..Len(list) : list[i] # x})

\* The sequence without its i-th element.
RemoveAt(seq, i) == SubSeq(seq, 1, i - 1) \o SubSeq(seq, i + 1, Len(seq))

\* this.jobOutputService.updateJob(jobId, ...), where there is a job.
UpdateJob == IF sink THEN jobUpdates + 1 ELSE jobUpdates

\* A callback in flight resumes when its promise resolves; clearInterval stops
\* the timer, not the callbacks that have started.
MayResume(i) == TRUE

\* cp.exec has given a process with a pid; setInterval starts the timer.
StartPolling(c) ==
  /\ interval = "none"
  /\ interval' = "set"
  /\ detectedServerPorts' = detectPossiblePorts(c)
  /\ UNCHANGED <<sink, callKind, seqVars, stageVars, killHandler, fnVars, treeVars, ioVars, flowVars,
                 dockerVars, handle, callbacks, jobUpdates>>

\* The timer fires: the callback calls findChildProcesses(childProcess.pid) and
\* waits for it.
IntervalFires ==
  /\ interval = "set"
  /\ Len(callbacks) < MaxCalls
  /\ callbacks' = Append(callbacks, "children")
  /\ UNCHANGED <<sink, callKind, seqVars, stageVars, killHandler, fnVars, treeVars, ioVars, flowVars,
                 dockerVars, handle, interval, jobUpdates, detectedServerPorts>>

\* findChildProcesses has answered the i-th callback in flight with the pids of
\* found: the new ones are appended to childPids and the job is updated; where
\* the command line named ports the callback goes on to checkPortsInUse.
ChildrenFound(i, found) ==
  /\ i \in 1..Len(callbacks)
  /\ callbacks[i] = "children"
  /\ MayResume(i)
  /\ LET newPids == NotIncluded(found, handle.childPids)
     IN  IF newPids # <<>>
           THEN /\ handle' = [handle EXCEPT !.childPids = @ \o newPids]
                /\ jobUpdates' = UpdateJob
           ELSE UNCHANGED <<handle, jobUpdates>>
  /\ callbacks' = IF detectedServerPorts # {} THEN [callbacks EXCEPT ![i] = "ports"] ELSE RemoveAt(callbacks, i)
  /\ UNCHANGED <<sink, callKind, seqVars, stageVars, killHandler, fnVars, treeVars, ioVars, flowVars,
                 dockerVars, interval, detectedServerPorts>>

\* checkPortsInUse has answered the i-th callback in flight with the ports of
\* active: the new ones are appended to detectedPorts and the job is updated.
PortsChecked(i, active) ==
  /\ i \in 1..Len(callbacks)
  /\ callbacks[i] = "ports"
  /\ MayResume(i)
  /\ active \subseteq detectedServerPorts
  /\ LET newPorts == NotIncluded(active, handle.detectedPorts)
     IN  IF newPorts # <<>>
           THEN /\ handle' = [handle EXCEPT !.detectedPorts = @ \o newPorts]
                /\ jobUpdates' = UpdateJob
           ELSE UNCHANGED <<handle, jobUpdates>>
  /\ callbacks' = RemoveAt(callbacks, i)
  /\ UNCHANGED <<sink, callKind, seqVars, stageVars, killHandler, fnVars, treeVars, ioVars, flowVars,
                 dockerVars, interval, detectedServerPorts>>

\* The 'data' handler of stdout finds a port in the output: a port that is not
\* yet in detectedPorts is pushed and the job is updated.
StdoutData(port) ==
  /\ interval = "set"
  /\ NotIncluded({port}, handle.detectedPorts) # <<>>
  /\ handle' = [handle EXCEPT !.detectedPorts = Append(@, port)]
  /\ jobUpdates' = UpdateJob
  /\ UNCHANGED <<sink, callKind, seqVars, stageVars, killHandler, fnVars, treeVars, ioVars, flowVars,
                 dockerVars, interval, callbacks, detectedServerPorts>>

\* The 'close' or the 'error' handler of the process: clearInterval(portCheckInterval).
ProcessEnded ==
  /\ interval = "set"
  /\ interval' = "cleared"
  /\ UNCHANGED <<sink, callKind, seqVars, stageVars, killHandler, fnVars, treeVars, ioVars, flowVars,
                 dockerVars, handle, callbacks, jobUpdates, detectedServerPorts>>

PollNext ==
  \/ \E c \in KillCommands : StartPolling(c)
  \/ IntervalFires
  \/ \E i \in 1..MaxCalls, found \in SUBSET (Pids \ {PrimaryPid}) : ChildrenFound(i, found)
  \/ \E i \in 1..MaxCalls, active \in SUBSET Ports : PortsChecked(i, active)
  \/ \E port \in Ports : StdoutData(port)
  \/ ProcessEnded

PollSpec == Init /\ [][PollNext]_vars

-----------------------------------------------------------------------------
\* killProcessAndChildren on a POSIX platform, and the processes of the machine.
\* Every await of the routine waits for a child process (pgrep, lsof, pkill) or a
\* timer, so the processes of the machine may fork and exit between any two of
\* its steps.

engineVars == <<sink, callKind, seqVars, stageVars, killHandler, fnVars, ioVars, flowVars, dockerVars, pollVars>>

Alive == {p \in Pids : procs[p].state = "alive"}
Free == {p \in Pids : procs[p].state = "free"}
\* The pid the next process gets: pids are not reused.
NextPid == CHOOSE p \in Free : \A q \in Free : p <= q
\* The parent pid the kernel reports: an orphan is adopted by init (0).
Ppid(p) == IF procs[p].forkedBy \in Alive THEN procs[p].forkedBy ELSE 0
\* `pgrep -P pid`
Pgrep(pid) == {c \in Alive : Ppid(c) = pid}
\* `lsof -i:port -t`
Lsof(port) == {p \in Alive : procs[p].port = port}
\* p was forked by a, or by a process that descends from a.
RECURSIVE DescendsFrom(_, _)
DescendsFrom(p, a) ==
  LET f == procs[p].forkedBy
  IN  f # 0 /\ (f = a \/ DescendsFrom(f, a))
\* The processes of the other tasks of the stage, and what they forked.
SiblingProcesses == {p \in Pids \ Free : p # PrimaryPid /\ ~DescendsFrom(p, PrimaryPid)}
SiblingRoots == {p \in SiblingProcesses : procs[p].forkedBy = 0}

\* The set S of processes ends by a signal.
Signalled(S) == [p \in Pids |-> IF p \in S \cap Alive THEN [procs[p] EXCEPT !.state = "killed"] ELSE procs[p]]

\* command.command.includes('npm run dev') || command.command.includes('vite')
IncludesDev(c) == c \in {"npm run dev"}
\* command.command.includes('npm run start') || command.command.includes('node server')
IncludesServer(c) == c \in {"node server"}
\* command.command.match(/(?:npm run\s+|node\s+)(\w+)/)?.[1], "" for no match
ScriptName(c) ==
  CASE c = "npm run dev" -> "dev"
    [] c = "node server" -> "server"
    [] OTHER -> ""
CriticalPorts(c, detected) ==
  detected \cup (IF IncludesDev(c) THEN {ViteDefaultPort} ELSE {})
           \cup (IF IncludesServer(c) THEN {ServerDefaultPort, ExpressPort} ELSE {})

\* cp.exec of runCommand: the shell of the task is the first process.
SpawnTask(c) ==
  /\ killPc = "none"
  /\ procs' = [procs EXCEPT ![PrimaryPid] = [state |-> "alive", forkedBy |-> 0, port |-> PlainProcess.port,
                                             node |-> PlainProcess.node]]
  /\ primaryCommand' = c
  /\ killPc' = "running"
  /\ UNCHANGED <<engineVars, childPids, detectedPorts, allPids, criticalPorts, pending, portInfo, portQueue, signals, killReport, failedSteps, portHolders>>

\* Another task of the parallel stage starts its process: the stage starts all
\* its tasks in one synchronous block, before any kill request.
SpawnSibling(k) ==
  /\ killPc = "running"
  /\ Free # {}
  /\ Cardinality(SiblingRoots) < MaxTasks - 1
  /\ procs' = [procs EXCEPT ![NextPid] = [state |-> "alive", forkedBy |-> 0, port |-> k.port, node |-> k.node]]
  /\ UNCHANGED <<engineVars, primaryCommand, killPc, childPids, detectedPorts, allPids, criticalPorts,
                 pending, portInfo, portQueue, signals, killReport, failedSteps, portHolders>>

\* A process forks a child.  The processes are followed until the routine returns.
Fork(p, k) ==
  /\ killPc \notin {"done", "failed"}
  /\ p \in Alive
  /\ Free # {}
  /\ procs' = [procs EXCEPT ![NextPid] = [state |-> "alive", forkedBy |-> p, port |-> k.port, node |-> k.node]]
  /\ UNCHANGED <<engineVars, primaryCommand, killPc, childPids, detectedPorts, allPids, criticalPorts,
                 pending, portInfo, portQueue, signals, killReport, failedSteps, portHolders>>

\* A process ends by itself.
Exit(p) ==
  /\ killPc \notin {"done", "failed"}
  /\ p \in Alive
  /\ procs' = [procs EXCEPT ![p].state = "exited"]
  /\ UNCHANGED <<engineVars, primaryCommand, killPc, childPids, detectedPorts, allPids, criticalPorts,
                 pending, portInfo, portQueue, signals, killReport, failedSteps, portHolders>>

\* The child pids the periodic check of runCommand can have collected: descendants
\* of the primary process, each found through its parent.
TrackedChildPids ==
  {S \in SUBSET {p \in Pids \ Free : DescendsFrom(p, PrimaryPid)} :
     \A p \in S : procs[p].forkedBy = PrimaryPid \/ procs[p].forkedBy \in S}

\* The kill handler calls killProcessAndChildren(childProcess, command, detectedPorts,
\* childPids): allPids is seeded and findChildProcesses(childProcess.pid) is called.
\* The guard of the handler is childProcess.pid, which stays set when the shell
\* has exited while its children still hold its pipes.
KillProcessAndChildren(tracked, ports) ==
  /\ sink
  /\ killPc = "running"
  /\ childPids' = tracked
  /\ detectedPorts' = ports
  /\ allPids' = {PrimaryPid} \cup tracked
  /\ pending' = <<PrimaryPid>>
  /\ killPc' = "find"
  /\ UNCHANGED <<engineVars, procs, primaryCommand, criticalPorts, portInfo, portQueue, signals, killReport, failedSteps, portHolders>>

\* The ways one call of findChildProcesses goes: `pgrep -P` answers; pgrep fails
\* and the fallback `ps -o pid --ppid` answers, whose children are not asked for
\* theirs; both fail, the error is logged and no child is returned.
Enumerations == {"pgrep", "ps", "none"}

\* One call of findChildProcesses: the children found are targets, and with pgrep
\* each is asked for its own children before the next child of the same parent.
FindChildProcesses(enumeration) ==
  /\ killPc \in {"find", "holders"}
  /\ pending # <<>>
  /\ LET kids == IF enumeration = "none" THEN {} ELSE Pgrep(Head(pending))
     IN  /\ allPids' = allPids \cup kids
         /\ pending' = IF enumeration = "pgrep" THEN SortedSeq(kids) \o Tail(pending) ELSE Tail(pending)
  /\ UNCHANGED <<engineVars, procs, primaryCommand, killPc, childPids, detectedPorts, criticalPorts,
                 portInfo, portQueue, signals, killReport, portHolders>>
  /\ failedSteps' = IF enumeration # "pgrep" THEN failedSteps \cup {"enumerate"} ELSE failedSteps

\* The descendants are listed: criticalPorts is built and checkPortsInUse reports,
\* for each port in use, the first pid lsof prints.  Where the lookup fails the
\* error is logged and no port is reported.
CheckPortsInUse(failed) ==
  /\ killPc = "find"
  /\ pending = <<>>
  /\ LET critical == CriticalPorts(primaryCommand, detectedPorts)
         inUse == IF failed THEN {} ELSE {port \in critical : Lsof(port) # {}}
         ordered == SortedSeq(inUse)
     IN  /\ criticalPorts' = critical
         /\ portInfo' = [i \in 1..Len(ordered) |-> Head(SortedSeq(Lsof(ordered[i])))]
         /\ portHolders' = {Head(SortedSeq(Lsof(port))) : port \in inUse}
  /\ killPc' = "holders"
  /\ UNCHANGED <<engineVars, procs, primaryCommand, childPids, detectedPorts, allPids, pending, portQueue, signals, killReport>>
  /\ failedSteps' = IF failed THEN failedSteps \cup {"lookup"} ELSE failedSteps

\* The loop over portInfo: a holder that is no target yet becomes one, and
\* findChildProcesses is called for it.
PortHolder ==
  /\ killPc = "holders"
  /\ pending = <<>>
  /\ portInfo # <<>>
  /\ LET pid == Head(portInfo)
     IN  IF pid \notin allPids
           THEN allPids' = allPids \cup {pid} /\ pending' = <<pid>>
           ELSE UNCHANGED <<allPids, pending>>
  /\ portInfo' = Tail(portInfo)
  /\ UNCHANGED <<engineVars, procs, primaryCommand, killPc, childPids, detectedPorts, criticalPorts, portQueue, signals, killReport, failedSteps, portHolders>>

\* process.kill(pid, signal) throws ESRCH for a pid that no longer exists.
ProcessKillThrows(pid) == pid \notin Alive

EscapesWhenGone(pids) == \E pid \in pids : ProcessKillThrows(pid)

\* try { process.kill(pid, signal) } catch (e) { } inside the loop: what
\* process.kill throws is caught for each pid, and nothing leaves the loop.
Escapes(pids) == FALSE

OnlyTheProcess(pids) == {PrimaryPid}

\* for (const pid of allPids): the pids a signal loop goes through.
LoopPids(pids) == pids

\* The calls of process.kill one loop makes, in the order of the set.
SignalLoop(pids, signal) ==
  LET ordered == SortedSeq(pids)
  IN  [i \in 1..Len(ordered) |-> [pid |-> ordered[i], signal |-> signal, gone |-> ProcessKillThrows(ordered[i])]]

\* The catch of the kill handler: the failure is reported with exit code 1.
KillFailed ==
  /\ killPc' = "failed"
  /\ killReport' = 1
  /\ UNCHANGED <<procs, portQueue, signals>>

\* process.kill(pid, 'SIGTERM') for every target; the processes of D end on the
\* signal, the other targets handle or ignore it.  Then the 500 ms timer starts.
SendSigterm(D) ==
  /\ killPc = "holders"
  /\ pending = <<>>
  /\ portInfo = <<>>
  /\ D \subseteq LoopPids(allPids) \cap Alive
  /\ IF Escapes(LoopPids(allPids))
       THEN KillFailed
       ELSE /\ procs' = Signalled(D)
            /\ signals' = signals \o SignalLoop(LoopPids(allPids), "SIGTERM")
            /\ killPc' = "wait"
            /\ UNCHANGED <<portQueue, killReport>>
  /\ UNCHANGED <<engineVars, primaryCommand, childPids, detectedPorts, allPids, criticalPorts, pending,
                 portInfo, failedSteps, portHolders>>

\* The timer has fired: process.kill(pid, 'SIGKILL') for every target, and the
\* loop over detectedPorts starts.
SendSigkill ==
  /\ killPc = "wait"
  /\ IF Escapes(LoopPids(allPids))
       THEN KillFailed
       ELSE /\ procs' = Signalled(LoopPids(allPids))
            /\ signals' = signals \o SignalLoop(LoopPids(allPids), "SIGKILL")
            /\ killPc' = "byport"
            /\ portQueue' = SortedSeq(detectedPorts)
            /\ UNCHANGED killReport
  /\ UNCHANGED <<engineVars, primaryCommand, childPids, detectedPorts, allPids, criticalPorts, pending,
                 portInfo, failedSteps, portHolders>>

\* `lsof -i:port -t | xargs kill -9` for the next detected port; the callback of
\* exec resolves whether the command line failed or not.
KillByPort(failed) ==
  /\ killPc = "byport"
  /\ portQueue # <<>>
  /\ procs' = IF failed THEN procs ELSE Signalled(Lsof(Head(portQueue)))
  /\ portQueue' = Tail(portQueue)
  /\ UNCHANGED <<engineVars, primaryCommand, killPc, childPids, detectedPorts, allPids, criticalPorts,
                 pending, portInfo, signals, killReport, portHolders>>
  /\ failedSteps' = IF failed THEN failedSteps \cup {"kill"} ELSE failedSteps

\* `pkill -f "node.*scriptName"` where the command has a script name: the signal
\* is SIGTERM, sent to every process of the machine whose command line matches.
KillByScriptName(D) ==
  /\ killPc = "byport"
  /\ portQueue = <<>>
  /\ D \subseteq {p \in Alive : procs[p].node}
  /\ ScriptName(primaryCommand) = "" => D = {}
  /\ procs' = Signalled(D)
  /\ portQueue' = SortedSeq(criticalPorts)
  /\ killPc' = "failsafe"
  /\ UNCHANGED <<engineVars, primaryCommand, childPids, detectedPorts, allPids, criticalPorts, pending,
                 portInfo, signals, killReport, failedSteps, portHolders>>

\* `lsof -ti:port | xargs kill -9` for the next critical port; the callback of
\* exec resolves whether the command line failed or not.
FailsafeKillByPort(failed) ==
  /\ killPc = "failsafe"
  /\ portQueue # <<>>
  /\ procs' = IF failed THEN procs ELSE Signalled(Lsof(Head(portQueue)))
  /\ portQueue' = Tail(portQueue)
  /\ UNCHANGED <<engineVars, primaryCommand, killPc, childPids, detectedPorts, allPids, criticalPorts,
                 pending, portInfo, signals, killReport, portHolders>>
  /\ failedSteps' = IF failed THEN failedSteps \cup {"kill"} ELSE failedSteps

\* killProcessAndChildren returns, and the kill handler reports the job as
\* canceled: completeJobFailure(jobId, 130).
KillCompleted ==
  /\ killPc = "failsafe"
  /\ portQueue = <<>>
  /\ killPc' = "done"
  /\ killReport' = CanceledExitCode
  /\ UNCHANGED <<engineVars, procs, primaryCommand, childPids, detectedPorts, allPids, criticalPorts,
                 pending, portInfo, portQueue, signals, failedSteps, portHolders>>

KillNext ==
  \/ \E c \in KillCommands : SpawnTask(c)
  \/ \E k \in ProcessKinds : SpawnSibling(k)
  \/ \E p \in Pids, k \in ProcessKinds : Fork(p, k)
  \/ \E p \in Pids : Exit(p)
  \/ \E tracked \in TrackedChildPids, ports \in SUBSET ListenPorts : KillProcessAndChildren(tracked, ports)
  \/ \E enumeration \in Enumerations : FindChildProcesses(enumeration)
  \/ \E failed \in BOOLEAN : CheckPortsInUse(failed)
  \/ PortHolder
  \/ \E D \in SUBSET Pids : SendSigterm(D)
  \/ SendSigkill
  \/ \E failed \in BOOLEAN : KillByPort(failed)
  \/ \E D \in SUBSET Pids : KillByScriptName(D)
  \/ \E failed \in BOOLEAN : FailsafeKillByPort(failed)
  \/ KillCompleted

\* The kill handler exists only where the runner has a sink (runCommand, line 356).
KillInit == Init /\ sink

KillSpec == KillInit /\ [][KillNext]_vars

-----------------------------------------------------------------------------
\* Shorthands of the claims below.
Sequential == stagePc # "none" /\ Len(commands) > 0 /\ ~stage.parallel
Parallel == stagePc # "none" /\ Len(commands) > 0 /\ stage.parallel
StageDone == stagePc = "done" /\ Len(commands) > 0
\* The runCommand of n has returned an unsuccessful result.
RanAndFailed(n) == taskState[n] = "returned" /\ ~results[n].success
RanAndSucceeded(n) == taskState[n] = "returned" /\ results[n].success
\* Every command declared after n has never been considered.
LaterIdle(n) == \A m \in Range(commands) : Position(m) > Position(n) => taskState[m] = "idle"

\* C1: in a sequential stage the tasks are started in declaration order, a task
\* is started only after the runCommand of every task before it has returned (or
\* the task was skipped), so at most one task is running at any time; with tasks
\* A then B, B depending on A, A has returned before B is started, and when both
\* succeed the stage succeeds with both run.
C1_SequentialOrder ==
  Sequential =>
    /\ Cardinality({n \in Names : taskState[n] \in {"running", "settled"}}) <= 1
    /\ \A n, m \in Range(commands) :
         (Position(n) < Position(m) /\ taskState[m] # "idle") => taskState[n] \in {"returned", "skipped"}
    /\ \A i, j \in 1..Len(executedCommands) :
         i < j => Position(executedCommands[i]) < Position(executedCommands[j])
    /\ (commands = <<1, 2>> /\ cmd[1].depends_on = {} /\ cmd[2].depends_on = {1}) =>
         /\ Started(2) => taskState[1] = "returned"
         /\ (stagePc = "done" /\ RanAndSucceeded(1) /\ ~RanAndFailed(2)) =>
              (RanAndSucceeded(2) /\ stageResult.success /\ executedCommands = <<1, 2>>)

C1_Witness ==
  /\ Sequential /\ stagePc = "done"
  /\ commands = <<1, 2>> /\ cmd[1].depends_on = {} /\ cmd[2].depends_on = {1}
  /\ RanAndSucceeded(1) /\ RanAndSucceeded(2)
  /\ stageResult.success

\* C2: in a sequential stage a task is started only when all its dependencies
\* are in executedCommands; a task without allow_failure whose dependency is
\* missing is never started, the stage returns at once with success false and
\* the dependency error (whatever the stage's allow_failure), and no task
\* declared after it is ever considered.
C2_DependencyAbort ==
  Sequential =>
    \A n \in Range(commands) :
      /\ Started(n) => cmd[n].depends_on \subseteq Range(executedCommands)
      /\ (~cmd[n].allow_failure /\ taskState[n] # "idle"
            /\ ~(cmd[n].depends_on \subseteq Range(executedCommands) \cup {n}))
           => taskState[n] = "deperr"
      /\ taskState[n] = "deperr" =>
           /\ ~cmd[n].allow_failure
           /\ cmdJob[n].start = 0 /\ n \notin Range(executedCommands)
           /\ LaterIdle(n)
           /\ stagePc = "done"
           /\ ~stageResult.success /\ stageResult.error = "dependency" /\ stageResult.exitCode = {1}

C2_Witness ==
  /\ Sequential /\ stage.allow_failure
  /\ commands = <<1, 2>>
  /\ taskState[1] = "deperr" /\ taskState[2] = "idle"
  /\ stagePc = "done" /\ ~stageResult.success

\* C3: in both modes a task with allow_failure whose dependency is unsatisfied
\* is skipped: it is never started, its name is not added to executedCommands,
\* the tasks after it are still considered, and a stage in which nothing else
\* fails returns success.
C3_TolerantSkip ==
  (Sequential \/ Parallel) =>
    /\ \A n \in Range(commands) :
         /\ (cmd[n].allow_failure /\ taskState[n] # "idle"
               /\ ~(cmd[n].depends_on \subseteq Range(executedCommands) \cup {n}))
              => taskState[n] = "skipped"
         /\ cmd[n].allow_failure => taskState[n] # "deperr"
         /\ taskState[n] = "skipped" =>
              /\ cmd[n].allow_failure
              /\ cmdJob[n].start = 0 /\ n \notin Range(executedCommands)
    /\ (stagePc = "done" /\ \A n \in Range(commands) : taskState[n] # "deperr" /\ ~RanAndFailed(n))
         => /\ \A n \in Range(commands) : taskState[n] \in {"returned", "skipped"}
            /\ stageSuccess /\ stageResult.success

C3_Witness ==
  /\ Sequential /\ stagePc = "done"
  /\ commands = <<1, 2>>
  /\ taskState[1] = "skipped" /\ RanAndSucceeded(2)
  /\ stageResult.success

\* C4: in a sequential stage, once a task without allow_failure has returned an
\* unsuccessful result no task declared after it is started and the internal
\* outcome of the stage (stageSuccess) is failure.
C4_FailureStopsStage ==
  Sequential =>
    \A n \in Range(commands) :
      (RanAndFailed(n) /\ ~cmd[n].allow_failure) =>
        /\ LaterIdle(n)
        /\ stagePc = "done"
        /\ ~stageSuccess

C4_Witness ==
  /\ Sequential
  /\ commands = <<1, 2>>
  /\ RanAndFailed(1) /\ ~cmd[1].allow_failure /\ results[1].error = "stderr"
  /\ taskState[2] = "idle" /\ stagePc = "done"

\* C5: for a stage without stage-level allow_failure, in either mode, in which
\* every dependency check passed and exactly one task returned an unsuccessful
\* result: if that task has allow_failure the stage returns success and every
\* other task was run; if it has not, the stage returns failure.
OnlyFailing(f) ==
  /\ RanAndFailed(f)
  /\ \A n \in Range(commands) : taskState[n] \notin {"skipped", "deperr"} /\ (n # f => ~RanAndFailed(n))
C5_OnlyFailingTask ==
  (StageDone /\ ~stage.allow_failure) =>
    \A f \in Range(commands) :
      OnlyFailing(f) =>
        /\ cmd[f].allow_failure =>
             (stageResult.success /\ \A n \in Range(commands) : n # f => RanAndSucceeded(n))
        /\ ~cmd[f].allow_failure => ~stageResult.success

C5_Witness ==
  /\ StageDone /\ ~stage.allow_failure /\ stage.parallel
  /\ commands = <<1, 2>>
  /\ OnlyFailing(1) /\ cmd[1].allow_failure
  /\ RanAndSucceeded(2) /\ stageResult.success

\* A task without allow_failure ended unsuccessfully in this stage run: its
\* runCommand returned a failed result, or its dependency check failed.
InternalFailure ==
  \E n \in Range(commands) : ~cmd[n].allow_failure /\ (RanAndFailed(n) \/ taskState[n] = "deperr")

\* C6 (as claimed): in both modes a stage with allow_failure returns success true
\* for every internal failure, a failed task without allow_failure or a task
\* without allow_failure whose dependency was unsatisfied.
C6_StageAllowFailureFolds ==
  (StageDone /\ stage.allow_failure /\ InternalFailure) => stageResult.success

C8_ParallelWaitsForAll ==
  Parallel =>
    /\ stagePc \in {"await", "done"} =>
         \A n \in Range(commands) : cmd[n].depends_on = {} => Started(n)
    /\ stagePc = "done" =>
         /\ \A n \in Range(commands) : taskState[n] \in {"returned", "skipped", "deperr"}
         /\ \A n \in Range(commands) : cmd[n].depends_on = {} => taskState[n] = "returned"
         /\ ~stageSuccess <=>
              \E n \in Range(commands) : ~results[n].success /\ ~cmd[n].allow_failure
         /\ (\A n \in Range(commands) : cmd[n].depends_on = {} /\ results[n].success) =>
              /\ stageResult.success
              /\ \A n \in Range(commands) : results[n] = ExecutionResult(TRUE, {0}, "none")
              /\ Range(executedCommands) = Range(commands)

C8_Witness ==
  /\ Parallel /\ stagePc = "done"
  /\ commands = <<1, 2>>
  /\ executedCommands = <<2, 1>>
  /\ RanAndSucceeded(1) /\ RanAndSucceeded(2)
  /\ stageResult.success

C10_StagesStrictlyOrdered ==
  callKind = "sequence" =>
    /\ \A i, j \in 1..NumStages :
         (i < j /\ stageStatus[j] # "pending") => stageStatus[i] = "returned"
    /\ Cardinality({i \in 1..NumStages : stageStatus[i] = "running"}) <= 1
    /\ \A i \in 1..NumStages : stageStatus[i] = "running" => (i = stageIndex /\ seqPc = "wait")
    /\ stagePc # "none" => (seqPc = "wait" /\ stageStatus[stageIndex] = "running")
    /\ \A i \in 1..NumStages : stageStatus[i] # "pending" => i <= seqLen

C10_Witness ==
  /\ callKind = "sequence" /\ seqPc = "wait"
  /\ stageIndex = 2 /\ stageStatus[1] = "returned" /\ stageStatus[2] = "running"
  /\ \E n \in Names : taskState[n] = "running"

\* C11: runSequence stops at the first stage whose returned result is
\* unsuccessful: when the awaited runStage returns an unsuccessful result the
\* sequence returns failure at once and every later stage stays unstarted; when
\* it returns success (also a stage that failed internally and has
\* allow_failure) the sequence goes on; the sequence returns success only from
\* the pause after its last stage, with every stage run; and once runSequence
\* has returned no stage is started.
C11_StopsAtFirstFailure ==
  [][ /\ (seqPc = "wait" /\ seqPc' # "wait") =>
           /\ stageStatus'[stageIndex] = "returned"
           /\ IF stageResult.success
              THEN seqPc' = "pause" /\ seqResult' = NoResult
              ELSE /\ seqPc' = "done" /\ ~seqResult'.success
                   /\ \A i \in 1..NumStages : i > stageIndex => stageStatus'[i] = "pending"
      /\ (seqPc # "done" /\ seqPc' = "done" /\ seqResult'.success) =>
           /\ seqPc = "pause" /\ stageIndex = seqLen
           /\ \A i \in 1..seqLen : stageStatus'[i] = "returned"
      /\ seqPc = "done" => (stageStatus' = stageStatus /\ seqResult' = seqResult /\ stagePc' = "none")
    ]_vars

C11_Witness ==
  /\ callKind = "sequence" /\ seqPc = "done"
  /\ seqLen = 2 /\ stageIndex = 1
  /\ stageStatus[1] = "returned" /\ stageStatus[2] = "pending"
  /\ ~seqResult.success /\ ~sequenceSuccess

\* C12: configuration errors are reported without starting any work.  A
\* runStage call that found no stage or no command returns success false,
\* whatever the stage's allow_failure, and no runCommand is called; a
\* runSequence call that found no sequence or no stage returns success false
\* and no runStage is called.
C12_ConfigurationErrors ==
  /\ (stagePc = "done" /\ Len(commands) = 0) =>
       /\ ~stageResult.success
       /\ stageResult.error \in {"Stage not found", "No valid commands"}
       /\ \A n \in Names : taskState[n] = "idle" /\ cmdJob[n] = NoJob
       /\ executedCommands = <<>>
  /\ (stagePc \in {"launch", "await", "seq", "seqwait", "pause"}) => Len(commands) > 0
  /\ (callKind = "sequence" /\ seqPc = "done" /\ stageIndex = 0) =>
       /\ ~seqResult.success
       /\ seqResult.error \in {"Sequence not found", "No valid stages"}
       /\ \A i \in 1..NumStages : stageStatus[i] = "pending"
       /\ stagePc = "none"
  /\ (callKind = "sequence" /\ seqPc \in {"run", "wait", "pause"}) => seqLen > 0

C12_Witness ==
  /\ callKind = "stage" /\ stagePc = "done"
  /\ Len(commands) = 0 /\ stage.allow_failure
  /\ stageResult = ExecutionResult(FALSE, {}, "No valid commands")

\* C13: areDependenciesSatisfied(command, executedCommands) is true exactly when
\* the command has no depends_on or every name of its depends_on, a single name
\* or a list, is in executedCommands; the call leaves executedCommands as it was.
C13_DependenciesSatisfied ==
  fnCall.fn = "areDependenciesSatisfied" =>
    LET d == fnCall.command.depends_on
        listed == IF d.kind = "name" THEN {d.names[1]}
                  ELSE {d.names[i] : i \in 1..Len(d.names)}
    IN /\ fnResult.value <=>
            (d.kind = "none" \/ \A x \in listed : \E i \in 1..Len(fnCall.executed) : fnCall.executed[i] = x)
       /\ fnResult.executed = fnCall.executed

C13_Witness ==
  /\ fnCall.fn = "areDependenciesSatisfied"
  /\ fnCall.command.depends_on = [kind |-> "list", names |-> <<1, 2>>]
  /\ fnCall.executed = <<1>>
  /\ ~fnResult.value

\* C14 (as claimed): when a kill request is made for a running process task, the
\* runCommand of the task eventually returns an unsuccessful result whose exit
\* code is 130.
C14_CanceledResult ==
  \A n \in Names :
    (killHandler[n] = "running") ~>
      (taskState[n] = "returned" /\ ~results[n].success /\ results[n].exitCode = {CanceledExitCode})

\* C15 (as claimed): every runStage call that has started eventually returns,
\* also when one of its tasks is canceled while it is running.
C15_StageRunReturns ==
  (stagePc # "none") ~> (stagePc = "done")

\* The completion calls the sink received for a job.
Completions(j) == j.success + j.failure

\* C18 (as claimed): for each task, stage and sequence for which the sink got a
\* start call, it has got exactly one completion call (completeJobSuccess or
\* completeJobFailure) by the time runCommand, runStage or runSequence returns.
C18_OneCompletionReport ==
  /\ \A n \in Names :
       (taskState[n] = "returned" /\ cmdJob[n].start > 0) => Completions(cmdJob[n]) = 1
  /\ (stagePc = "done" /\ stageJob.start > 0) => Completions(stageJob) = 1
  /\ (seqPc = "done" /\ sequenceJob.start > 0) => Completions(sequenceJob) = 1

\* The single runCommand call has returned after the close event of its process.
ClosedAndReturned ==
  /\ callKind = "command" /\ fnCall.fn = "close"
  /\ taskState[fnCall.name] = "returned"

\* C19 (as claimed): for a process task a close with exit code 0 yields success
\* true and exitCode 0, and a close with any other exit code yields success
\* false with that exit code and the captured stderr as error; nothing else
\* makes a process task succeed.
C19_CloseResult ==
  /\ (ClosedAndReturned /\ fnCall.code # {}) =>
       results[fnCall.name] =
         IF fnCall.code = {0} THEN ExecutionResult(TRUE, {0}, "none")
         ELSE ExecutionResult(FALSE, fnCall.code, fnCall.stderr)
  /\ \A n \in Names :
       (callKind = "command" /\ results[n].success) =>
         (fnCall.fn = "close" /\ fnCall.name = n /\ fnCall.code = {0})

\* C19 (amended): a close with exit code 0 yields success true and exitCode 0;
\* a close with any other code yields success false, with that exit code, or 1
\* when the process has no exit code because a signal ended it, and with the
\* captured stderr as error when it is not empty, the message of the error
\* ("Command failed with exit code N") when it is; nothing else makes a process
\* task succeed.
C19_CloseResultSurfaced ==
  /\ ClosedAndReturned =>
       results[fnCall.name] =
         IF fnCall.code = {0} THEN ExecutionResult(TRUE, {0}, "none")
         ELSE ExecutionResult(FALSE,
                              IF fnCall.code = {} THEN {1} ELSE fnCall.code,
                              IF fnCall.stderr # "" THEN fnCall.stderr ELSE "Error: Command failed")
  /\ \A n \in Names :
       (callKind = "command" /\ results[n].success) =>
         (fnCall.fn = "close" /\ fnCall.name = n /\ fnCall.code = {0})

C19_Witness ==
  /\ ClosedAndReturned
  /\ fnCall.code = {2} /\ fnCall.stderr = ""
  /\ results[fnCall.name] = ExecutionResult(FALSE, {2}, "Error: Command failed")

Descendants == {p \in Pids \ Free : DescendsFrom(p, PrimaryPid)}
\* The kill routine has returned.
KillReturned == killPc = "done"

\* C16: once the kill routine has gone through its SIGTERM loop, its grace
\* period and its SIGKILL loop and has returned, no process that descends from
\* the primary process of the canceled task is alive, whatever the tree is and
\* whenever its members forked.
C16_NoSurvivingDescendants ==
  KillReturned => Descendants \cap Alive = {}

\* C17: the kill routine of a canceled task signals only the task's own
\* process, the descendants it found and the holders of its ports: a process
\* of a sibling task that is not in the target set and holds none of the ports
\* is never ended by a signal of the routine.
C17_SiblingsKeepRunning ==
  \A p \in SiblingProcesses :
    procs[p].state = "killed" => (p \in allPids \/ procs[p].port \in criticalPorts)

\* C28: in a sequence run, a task of a later stage whose depends_on names only
\* tasks that were executed in earlier stages of the same run passes its
\* dependency check: it is neither skipped nor the cause of a dependency error.
C28_EarlierStageDependencies ==
  \A n \in Names :
    ( /\ callKind = "sequence"
      /\ stageIndex \in 1..NumStages
      /\ stageStatus[stageIndex] = "running"
      /\ cmd[n].depends_on # {}
      /\ n \notin cmd[n].depends_on
      /\ cmd[n].depends_on \subseteq seqExecuted )
    => taskState[n] \notin {"deperr", "skipped"}

\* C24: processVariables is idempotent: for every text and every variable
\* mapping, in every iteration order, substituting the result of a substitution
\* returns it unchanged.
C24_SubstituteIdempotent ==
  fnCall.fn = "processVariables" => fnResult.again = fnResult.value

\* C22: extraction changes the store only for the declared output names: each
\* declared name with a matching marker in stdout is set once, to the trimmed
\* value of a marker of that name found in stdout, whatever stderr holds; every
\* other name is not set and keeps what the store held before.
C22_ExtractionSetsDeclaredOnce ==
  fnCall.fn = "extractOutputVariables" =>
    \A name \in VarNames :
      LET declared == fnCall.outputs.declared /\ name \in Range(fnCall.outputs.names)
          sets == {i \in 1..Len(fnResult.sets) : fnResult.sets[i].key = name}
      IN  IF declared /\ MarkerMatches(fnCall.stdout, name) # {}
          THEN /\ Cardinality(sets) = 1
               /\ \E i \in MarkerMatches(fnCall.stdout, name) :
                    getVariable(store, name) = Trim(fnCall.stdout[i].value)
          ELSE /\ sets = {}
               /\ getVariable(store, name) = getVariable(fnCall.before, name)

\* C25: the file written for a name ending in .json holds the pretty-printed
\* span that starts at the first `{` or `[` of the captured text and ends where
\* the bracket count returns to zero, when that span parses as JSON, and the
\* captured text itself otherwise; so `Log: ok {"a":1,"b":[2,3]} trailing` gives
\* the object alone, and an array after log text gives the array alone.
C25_JsonSpanPrettyPrinted ==
  (fnCall.fn = "saveOutputToFile" /\ files # <<>> /\ EndsWithJson(Basename(files[1].path))) =>
    LET output == fnCall.output
        brackets == {i \in 1..Len(output) : output[i] \in {"{", "["}}
        first == CHOOSE i \in brackets : \A j \in brackets : i <= j
        end == EndPos(output, output[first], first - 1, 0)
        span == SubSeq(output, first, end)
    IN  files[1].content = IF brackets # {} /\ end # -1 /\ Parses(span) THEN Stringify(span) ELSE output

\* C21: a call of runCommand whose working directory the ignore predicate
\* matches never starts a process and registers no kill handler; it returns at
\* once, with the store and the files as they were at its entry and the result
\* success false, exit code 1 and the error of the ignored path.
C21_IgnoredDirectoryFailsFast ==
  (flowCalls > 0 /\ flowCall.ignored) =>
    /\ flowPc = "returned"
    /\ flowExec = NoExec
    /\ ~flowHandler
    /\ store = flowCall.store
    /\ files = flowCall.files
    /\ flowResult = ExecutionResult(FALSE, {1}, "ignored")

\* A task that declares an output and an output file has been refused for its
\* working directory, with a sink attached and after an earlier task published.
C21_Witness ==
  /\ flowCalls > 0
  /\ flowCall.ignored
  /\ flowPc = "returned"
  /\ sink
  /\ flowCall.task.outputs.declared
  /\ flowCall.task.output_file # NoFile
  /\ store # <<>>

\* The text with every reference to the published variable, `${A}` or `$A` at
\* a word boundary, replaced by the value as it stands.
RECURSIVE WithValue(_, _, _)
WithValue(text, i, value) ==
  IF i > Len(text) THEN <<>>
  ELSE IF MatchesAt(text, i, BracedPattern(MarkerName), FALSE)
       THEN value \o WithValue(text, i + Len(BracedPattern(MarkerName)), value)
       ELSE IF MatchesAt(text, i, BarePattern(MarkerName), TRUE)
            THEN value \o WithValue(text, i + Len(BarePattern(MarkerName)), value)
            ELSE <<text[i]>> \o WithValue(text, i + 1, value)

\* C23: a task started after a task published the variable through a marker
\* is run with the published value in place of every reference: in the command
\* given to cp.exec, in its environment value, and in the name of the output
\* file it writes.
C23_PublishedValueConsumed ==
  (flowExec # NoExec /\ getVariable(flowCall.store, MarkerName) # Unset) =>
    LET value == getVariable(flowCall.store, MarkerName)
        task == flowCall.task
    IN  /\ flowExec.command = WithValue(task.command, 1, value)
        /\ task.env # NoEnv => flowExec.env = WithValue(task.env, 1, value)
        /\ (~task.outputs.declared /\ Len(files) > Len(flowCall.files)) =>
             files[Len(files)].path
               = ResultsDir \o Basename(RemoveTrailingPeriods(WithValue(task.output_file, 1, value)))

\* C26: a call of runDockerCommand for a task marked to remove its container
\* that ends without success has attempted the removal, and has returned the
\* failed result of the error that made it fail, whatever the removal did: it
\* has not raised.
C26_RemovalAttemptedNeverEscalated ==
  (flowCalls > 0 /\ flowPc \in {"returned", "thrown"} /\ dockerTask.remove_after_run
     /\ flowResult # DockerSuccess) =>
    /\ flowPc = "returned"
    /\ removals = 1
    /\ \E error \in DockerErrors : flowResult = DockerFailure(error)

\* One step of the kill routine, whatever its outcome.
KillRoutineStep ==
  \/ \E enumeration \in Enumerations : FindChildProcesses(enumeration)
  \/ \E failed \in BOOLEAN : CheckPortsInUse(failed)
  \/ PortHolder
  \/ \E D \in SUBSET Pids : SendSigterm(D)
  \/ SendSigkill
  \/ \E failed \in BOOLEAN : KillByPort(failed)
  \/ \E D \in SUBSET Pids : KillByScriptName(D)
  \/ \E failed \in BOOLEAN : FailsafeKillByPort(failed)
  \/ KillCompleted

\* C29: the kill routine never raises.  Whatever step fails (a pid has vanished,
\* the enumeration of children fails, the lookup of port owners fails, a kill
\* command errors), the routine goes on to its next step and returns, so the
\* kill handler reports the job with code 130 and never as a failed termination.
C29_KillRoutineNeverRaises ==
  /\ killPc # "failed"
  /\ killReport \in {0, CanceledExitCode}
  /\ (killPc = "done") = (killReport = CanceledExitCode)
  /\ killPc \in {"find", "holders", "wait", "byport", "failsafe"} => ENABLED KillRoutineStep

C29_Witness ==
  /\ killPc = "done"
  /\ killReport = CanceledExitCode
  /\ failedSteps = {"enumerate", "lookup", "kill"}
  /\ \E i \in 1..Len(signals) : signals[i].gone

\* The calls of process.kill made with the signal, as positions of the log.
SentAt(signal) == {i \in 1..Len(signals) : signals[i].signal = signal}
SentTo(signal) == {signals[i].pid : i \in SentAt(signal)}

\* C30: on POSIX the kill routine is graduated.  SIGTERM goes to every pid of the
\* kill set, and only after that SIGKILL goes to the pids of the kill set: no
\* SIGKILL is sent before every pid of the set has been sent SIGTERM; a pid that
\* no longer exists does not stop a loop; and when the routine has returned
\* every pid of the kill set has been sent both signals.
C30_GraduatedSignals ==
  /\ \A i \in SentAt("SIGKILL") :
       /\ \A j \in SentAt("SIGTERM") : j < i
       /\ allPids \subseteq SentTo("SIGTERM")
  /\ SentTo("SIGTERM") \cup SentTo("SIGKILL") \subseteq allPids
  /\ killPc \in {"wait", "byport", "failsafe", "done"} => SentTo("SIGTERM") = allPids
  /\ killPc \in {"byport", "failsafe", "done"} => SentTo("SIGKILL") = allPids
  /\ killPc = "done" => Len(signals) = 2 * Cardinality(allPids)

C30_Witness ==
  /\ killPc = "done"
  /\ Cardinality(allPids) > 1
  /\ \E i, j \in SentAt("SIGTERM") : i < j /\ signals[i].gone /\ ~signals[j].gone
  /\ \E i \in SentAt("SIGKILL") : ~signals[i].gone

\* The runs in which the process tree of the task is complete when the kill
\* request arrives: processes fork before the request only, and exit at any time.
SettledTreeNext ==
  \/ \E c \in KillCommands : SpawnTask(c)
  \/ \E k \in ProcessKinds : SpawnSibling(k)
  \/ \E p \in Pids, k \in ProcessKinds : killPc = "running" /\ Fork(p, k)
  \/ \E p \in Pids : Exit(p)
  \/ \E tracked \in TrackedChildPids, ports \in SUBSET ListenPorts : KillProcessAndChildren(tracked, ports)
  \/ KillRoutineStep

SettledTreeSpec == KillInit /\ [][SettledTreeNext]_vars

\* The enumeration that follows the seeding of the kill set has ended.
EnumerationEnded == killPc = "find" /\ pending = <<>>

\* C31: the kill set is a fixed point of child enumeration.  It holds the
\* primary pid and every pid found by polling, and when the enumeration has
\* ended without a failure every process that is now a child of a pid of the
\* kill set is in the kill set, the children of polled pids that are no longer
\* reachable from the primary pid included.
C31_KillSetFixedPoint ==
  (EnumerationEnded /\ "enumerate" \notin failedSteps) =>
    /\ {PrimaryPid} \cup childPids \subseteq allPids
    /\ \A c \in Alive : Ppid(c) \in allPids => c \in allPids

\* c is now a child of h, or of a process that is now below h.
RECURSIVE BelowNow(_, _)
BelowNow(c, h) ==
  LET parent == Ppid(c)
  IN  parent # 0 /\ (parent = h \/ BelowNow(parent, h))

\* The loop over the holders of the critical ports has ended.
HoldersAdded == killPc = "holders" /\ pending = <<>> /\ portInfo = <<>>

\* C32: for every critical port, the process that holds the port is added to the
\* kill set together with all of its descendants.  When the lookup and the
\* enumerations have not failed and the loop over the holders has ended, every
\* critical port still in use has a reported holder, every reported holder is in
\* the kill set, and so is every process that is now below a reported holder.
C32_PortHoldersAndDescendants ==
  (HoldersAdded /\ failedSteps = {}) =>
    /\ \A port \in criticalPorts :
         Lsof(port) # {} => \E h \in portHolders : procs[h].port = port
    /\ \A h \in portHolders :
         /\ h \in allPids
         /\ \A c \in Alive : BelowNow(c, h) => c \in allPids

\* a is the beginning of b.
IsPrefix(a, b) == Len(a) <= Len(b) /\ SubSeq(b, 1, Len(a)) = a
NoDuplicates(list) == \A i, j \in 1..Len(list) : list[i] = list[j] => i = j

\* The handle only grows and holds no duplicates.
HandleGrows ==
  /\ IsPrefix(handle.childPids, handle'.childPids)
  /\ IsPrefix(handle.detectedPorts, handle'.detectedPorts)
  /\ NoDuplicates(handle'.childPids)
  /\ NoDuplicates(handle'.detectedPorts)

C33_HandleGrowsWithoutDuplicates == [][HandleGrows]_vars

\* C33: the process handle of a task (its child pids and its ports) only grows,
\* holds no duplicates, and changes only while the task is running: once the
\* close or error event of the task has been handled, no polling callback, one
\* already in flight included, adds a pid or a port or updates the job.
C33_HandleChangesOnlyWhileRunning ==
  [][ /\ HandleGrows
      /\ interval = "cleared" => (handle' = handle /\ jobUpdates' = jobUpdates) ]_vars

\* The step considers the task n: its dependency check is made.
Considered(n) == taskState[n] = "idle" /\ taskState'[n] # "idle"

\* C34: in a stage run a dependency is satisfied by the dependency having been
\* run, not by its success.  A name is in the executed set exactly when the
\* runCommand of the task has returned, whatever the result; a task passes its
\* dependency check exactly when the runCommand of each of its dependencies has
\* returned before the check, so a task that depends on a tolerant task that
\* failed is run, and a task that depends on a skipped task fails its check.
C34_RunSatisfiesDependency ==
  [][ (Sequential \/ Parallel)' =>
        \A n \in Range(commands') :
          /\ n \in Range(executedCommands') <=> taskState'[n] = "returned"
          /\ Considered(n) =>
               (taskState'[n] \in {"skipped", "deperr"}
                  <=> \E d \in cmd[n].depends_on : taskState[d] # "returned") ]_vars

C34_Witness ==
  /\ Sequential
  /\ commands = <<1, 2>>
  /\ cmd[1].allow_failure /\ RanAndFailed(1)
  /\ cmd[2].depends_on = {1}
  /\ taskState[2] = "returned"
  /\ executedCommands = <<1, 2>>


\* C35: a process task that does not succeed never changes the VariableStore:
\* whenever the store differs from the store at the call, the call has returned
\* a success.  A task that exits non-zero, fails to spawn, is refused for an
\* ignored working directory or is canceled leaves the store as it was at the
\* call, whatever its allow_failure and the markers in its stdout.
C35_FailedTaskLeavesStore ==
  (flowCalls > 0 /\ store # flowCall.store) => (flowPc = "returned" /\ flowResult.success)

\* A task with allow_failure and a declared output has exited non-zero, and
\* the stdout the catch block saved holds a marker of the declared output.
C35_Witness ==
  /\ flowPc = "returned"
  /\ ~flowResult.success
  /\ ~flowCall.ignored
  /\ flowCall.task.allow_failure
  /\ flowCall.task.outputs = [declared |-> TRUE, names |-> <<MarkerName>>]
  /\ Len(files) = Len(flowCall.files) + 1
  /\ \E v \in PublishedValues :
       /\ files[Len(files)].content = <<[marker |-> TRUE, name |-> MarkerName, value |-> v]>>
       /\ getVariable(store, MarkerName) # v
  /\ store = flowCall.store


\* The causes of a failed container task the claim lists.
ListedDockerErrors == {"start", "not found", "wait", "logs"}

\* C36: the result of a container task does not depend on the exit status of
\* the run of its container: a call that has returned has returned success
\* with exit code 0, whatever the status the container exited with, or the
\* failure with exit code 1 of a start that failed, a container that was not
\* found, or a wait or a log retrieval that raised.
C36_ResultIgnoresExitStatus ==
  (flowCalls > 0 /\ flowPc = "returned") =>
    \/ flowResult = DockerSuccess
    \/ \E error \in ListedDockerErrors : flowResult = DockerFailure(error)

\* The same with the errors of the file step among the causes.
C36_ResultOfTheTryBlock ==
  (flowCalls > 0 /\ flowPc = "returned") =>
    \/ flowResult = DockerSuccess
    \/ \E error \in DockerErrors : flowResult = DockerFailure(error)

\* A container that exited with a status other than 0, its task a success.
C36_NonzeroSuccess ==
  flowPc = "returned" /\ container = "exited nonzero" /\ flowResult = DockerSuccess


\* A kill request for the task n after its process has closed.  The handler
\* stays registered with the sink, and its test "if (childProcess &&
\* childProcess.pid)" holds for every process that was spawned, closed or not:
\* the handler sets canceled and calls killProcessAndChildren as for a running
\* task.
KillRequestAfterClose(n) ==
  /\ sink
  /\ callKind = "command"
  /\ fnCall.fn = "close"
  /\ fnCall.name = n
  /\ taskState[n] = "returned"
  /\ killHandler[n] = "idle"
  /\ killHandler' = [killHandler EXCEPT ![n] = "running"]
  /\ UNCHANGED <<sink, callKind, seqVars, stageVars, fnVars, treeVars, pollVars, ioVars, flowVars, dockerVars>>

LateKillNext ==
  \/ CommandNext
  \/ \E n \in Names : KillRequestAfterClose(n)

LateKillSpec == Init /\ [][LateKillNext]_vars

\* The process of n has closed and runCommand has reported its result to the
\* sink, no kill request having come before.
ReportedBeforeKill(n) ==
  /\ fnCall.fn = "close"
  /\ fnCall.name = n
  /\ taskState[n] = "returned"
  /\ killHandler[n] = "idle"

\* C37: a kill request that arrives after the process of a task has closed has
\* no effect: from then on the kill handler of the task does not run the kill
\* routine (it sends no signal) and the job of the task gets no further
\* completion event.
C37_LateKillHasNoEffect ==
  [][ \A n \in Names :
        ReportedBeforeKill(n) => (killHandler'[n] = "idle" /\ cmdJob'[n] = cmdJob[n]) ]_vars

\* The job of a task was completed by runCommand and again by the kill handler.
C37_ReportedTwice ==
  \E n \in Names :
    /\ taskState[n] = "returned"
    /\ killHandler[n] = "done"
    /\ cmdJob[n].success + cmdJob[n].failure = 2


\* The task of the configuration an object passed to runCommand is: the
\* command, the output_file and the outputs of the object are never written.
Definition(task) ==
  CHOOSE c \in TaskConfigs :
    /\ c.command = task.command
    /\ c.output_file = task.output_file
    /\ c.outputs = task.outputs

\* C38: runCommand leaves the task definition unchanged, so every run of a task
\* starts its process with the environment of the definition in which the
\* references are replaced by the values the variables have at that run.
C38_EnvironmentOfTheDefinition ==
  (flowCalls > 0 /\ flowExec # NoExec) =>
    flowExec.env = ProcessedEnv(Definition(flowCall.task).env, flowCall.store)

\* The object of a call differs from the object as it was passed.
C38_DefinitionWritten ==
  flowCalls > 0 /\ flowTask # flowCall.task

\* A task is run again after the variable its environment refers to has
\* changed, and its process gets the value of the run before.
C38_StaleEnvironment ==
  /\ flowExec # NoExec
  /\ flowCall.task # Definition(flowCall.task)
  /\ getVariable(flowCall.store, MarkerName) # Unset
  /\ flowExec.env = flowCall.task.env
  /\ flowExec.env # ProcessedEnv(Definition(flowCall.task).env, flowCall.store)

====
